---- MODULE Spec2Model ----
(***************************************************************************)
(* TrackLightNews: the article store (data_manager.py), the analysis       *)
(* normalizer (utils.py) and the email ingestion cycle and dashboard       *)
(* handlers (app.py), as a state machine.                                  *)
(*                                                                         *)
(* Python values are modelled as follows.                                  *)
(*   str    a sequence of tokens; the token " " is one whitespace          *)
(*          character, "/" one slash, every other token a run of other     *)
(*          characters ("Error" is the five characters E r r o r).         *)
(*   dict   a function whose DOMAIN is the set of keys present.            *)
(*   JSON   a tagged tuple: <<"null">>, <<"str", s>>, <<"list", items>>,   *)
(*          <<"dict", d>>, <<"num">>.                                      *)
(* A record's "status" is a TLA+ string, its "id" a natural number (a      *)
(* uuid4 is modelled by a counter: every draw is fresh).                   *)
(***************************************************************************)
EXTENDS Integers, Sequences, FiniteSets, TLC

VARIABLES
    articles_cache,   \* DataManager.articles_cache: list of article dicts
    data_file,        \* contents of articles_data.json
    prefs,            \* contents of preferences.json (a dict)
    sm,               \* DataManager.sm: "None" or "attached"
    remote_db,        \* rows of the Tracklight_DB worksheet (article dicts)
    next_uuid,        \* the next uuid4 draw
    now_ts,           \* wall clock, seconds
    nz_arg,           \* the dict a caller passes to normalize_analysis, as it is now
    nz_in,            \* what that dict held when each call was made
    nz_out,           \* what each call returned
    nu_in,            \* a url handed to the normalization of set_backend
    nu_out,           \* what the normalization gave for it
    nu_state,         \* "input", "done" or "raised"
    sheet,            \* rows of the first worksheet of the input spreadsheet
    sh_existing,      \* the existing_urls a caller passes to get_new_urls
    sh_client,        \* TRUE iff SheetManager.client is set
    sh_hist,          \* the calls of get_new_urls so far: sheet before, results, writes
    last_email_check_ts,  \* st.session_state["last_email_check_ts"], 0 when absent
    fetched,          \* the connector fetches started so far: when, and whether forced
    cd_call,          \* the last call of maybe_auto_check_email: arguments, and whether it fetched
    mailbox,          \* the messages fetch_new_links scans, and how each one decodes
    imap,             \* how the IMAP connection behaves: "ok", "login_raises", "no_inbox"
    fetch_out,        \* what fetch_new_links returned
    is_reanalyzing,   \* st.session_state["is_reanalyzing"]
    reanalyze_queue,  \* st.session_state["reanalyze_queue"]
    rq_sel,           \* the queue as the last batch re-analysis was started with
    rq_log,           \* the ids that batch has taken from the queue, in order
    raised,           \* TRUE iff the last call ended by raising
    last_call,        \* the last store call: its name, arguments and mirror outcome
    pc,               \* position of maybe_auto_check_email: "idle", "save", "scrape"
    api_key,          \* TRUE iff an OpenAI API key is configured
    links,            \* the connector output of the running cycle
    new_links,        \* maybe_auto_check_email: new_links
    i,                \* maybe_auto_check_email: loop index into new_links (1-based)
    saved_art,        \* id of the placeholder of the current candidate
    processed,        \* per candidate of the running cycle: what happened to it
    sweeps,           \* number of ingestion cycles started so far
    inbox,            \* the outputs the email connector may deliver
    purged,           \* urls of the records purge_article was called on
    calls             \* number of handler and store-interface calls made so far

vars == <<articles_cache, data_file, prefs, sm, remote_db, next_uuid, now_ts,
          raised, last_call, pc, api_key, links, new_links, i, saved_art,
          processed, sweeps, inbox, purged, calls, nz_arg, nz_in, nz_out,
          nu_in, nu_out, nu_state, sheet, sh_existing, sh_client, sh_hist,
          last_email_check_ts, fetched, cd_call, mailbox, imap, fetch_out,
          is_reanalyzing, reanalyze_queue, rq_sel, rq_log>>

storeVars == <<articles_cache, data_file, prefs, sm, remote_db, next_uuid,
               raised, last_call, purged>>
cycleVars == <<pc, api_key, links, new_links, i, saved_art, processed, sweeps, inbox>>
normVars == <<nz_arg, nz_in, nz_out>>
urlVars == <<nu_in, nu_out, nu_state>>
sheetVars == <<sheet, sh_existing, sh_client, sh_hist>>
coolVars == <<last_email_check_ts, fetched, cd_call>>
mailVars == <<mailbox, imap, fetch_out>>
queueVars == <<is_reanalyzing, reanalyze_queue, rq_sel, rq_log>>
toolVars == <<normVars, urlVars, sheetVars, mailVars, queueVars>>
libVars == <<toolVars, coolVars>>

----------------------------------------------------------------------------
(* Bounds of the model *)

MaxArticles == 3      \* the store holds at most this many records
MaxLinks == 3         \* a connector output holds at most this many links
MaxSweeps == 2        \* ingestion cycles per behaviour
MaxDraws == 2         \* uuid4 draws per behaviour of the store interface
MaxCalls == 3         \* store-interface calls per behaviour
MaxClicks == 2        \* dashboard clicks per behaviour
MaxNormalizeCalls == 2  \* calls of normalize_analysis on one dict
MaxUrlLen == 4        \* tokens of a url handed to the normalization
MaxRows == 2          \* rows of the input spreadsheet
MaxOps == 3           \* cycles and clicks together per behaviour of SpecEdit
MaxElapsed == 121     \* seconds of wall clock per behaviour of SpecCooldown
MaxMessages == 2      \* messages the connector scans in one fetch
MaxQueue == 2         \* ids selected for one batch re-analysis
MaxReads == 2         \* calls of get_new_urls per behaviour

----------------------------------------------------------------------------
(* Python strings *)

WS == " "
SLASH == "/"
EmptyStr == <<>>

RECURSIVE lstrip(_)
lstrip(s) == IF s # <<>> /\ Head(s) = WS THEN lstrip(Tail(s)) ELSE s

RECURSIVE rstrip(_, _)
rstrip(s, ch) ==
    IF s # <<>> /\ s[Len(s)] = ch THEN rstrip(SubSeq(s, 1, Len(s) - 1), ch) ELSE s

\* str.strip()
strip(s) == rstrip(lstrip(s), WS)

\* str.startswith(tok) for a one-token prefix
startswith(s, tok) == s # <<>> /\ Head(s) = tok

\* tok in s.lower(), for a token that stands for the lower-cased substring
contains(s, tok) == \E k \in 1..Len(s) : s[k] = tok

\* u.strip().rstrip('/')
NormalizeUrl(u) == rstrip(strip(u), SLASH)

----------------------------------------------------------------------------
(* Python dicts *)

Has(d, k) == k \in DOMAIN d

\* d.get(k, default)
Get(d, k, default) == IF k \in DOMAIN d THEN d[k] ELSE default

\* d.update(u)
dict_update(d, u) ==
    [k \in (DOMAIN d) \cup (DOMAIN u) |-> IF k \in DOMAIN u THEN u[k] ELSE d[k]]

Range(s) == {s[k] : k \in 1..Len(s)}

\* [a for a in cache if a["id"] != article_id]
without_id(cache, article_id) ==
    SelectSeq(cache, LAMBDA a : a["id"] # article_id)

\* index of the first record with this id, 0 when there is none
first_index(cache, article_id) ==
    IF \E k \in 1..Len(cache) : cache[k]["id"] = article_id
    THEN CHOOSE k \in 1..Len(cache) :
            /\ cache[k]["id"] = article_id
            /\ \A j \in 1..(k - 1) : cache[j]["id"] # article_id
    ELSE 0

\* Python None where a str is expected: what article.get("url") gives for a
\* record without the key
NoneStr == <<"\\None">>

----------------------------------------------------------------------------
(* data_manager.py: DataManager *)

FONT_SIZE == 18

\* get_preferences().get("deleted_urls", [])
deleted_urls == Get(prefs, "deleted_urls", {})

\* get_all_articles / get_active_articles
get_all_articles == articles_cache
get_active_articles == SelectSeq(articles_cache, LAMBDA a : Get(a, "status", "None") # "Deleted")

\* a _prepare_article that sets the metadata whether the caller gave it or not
prepare_article_overwriting(article_data, uuid, now) ==
    dict_update(article_data,
                [id |-> uuid, added_at |-> now, status |-> "Not Started",
                 notes |-> EmptyStr, last_error |-> EmptyStr])

\* _prepare_article: fill in the metadata that is absent
prepare_article(article_data, uuid, now) ==
    dict_update([id |-> uuid, added_at |-> now, status |-> "Not Started",
                 notes |-> EmptyStr, last_error |-> EmptyStr],
                article_data)

\* an update loop without the id test: every record takes the updates
updated_all(cache, article_id, updates) ==
    [k \in 1..Len(cache) |-> dict_update(cache[k], updates)]

\* an update loop without the break: every record with this id takes the updates
updated_every_match(cache, article_id, updates) ==
    [k \in 1..Len(cache) |->
        IF cache[k]["id"] = article_id THEN dict_update(cache[k], updates) ELSE cache[k]]

\* the loop of update_article: merge into the first record with this id
updated(cache, article_id, updates) ==
    LET k == first_index(cache, article_id)
    IN  IF k = 0 THEN cache ELSE [cache EXCEPT ![k] = dict_update(cache[k], updates)]

\* a delete that removes the record whatever hard is
deleted_always_hard(cache, article_id, hard) == without_id(cache, article_id)

\* the body of delete_article before _save
deleted(cache, article_id, hard) ==
    IF hard THEN without_id(cache, article_id)
    ELSE updated(cache, article_id, [status |-> "Deleted"])

\* outcomes of SheetManager.save_db as _save sees them
MirrorOutcomes == {"ok", "raise"}

\* a _save that mirrors before it writes the local file and lets the mirror's
\* exception through
_save_mirror_first(cache, out) ==
    IF sm = "attached" /\ out = "raise"
    THEN /\ raised' = TRUE
         /\ UNCHANGED <<data_file, remote_db>>
    ELSE /\ data_file' = cache
         /\ remote_db' = IF sm = "attached" THEN cache ELSE remote_db
         /\ raised' = FALSE

\* _save: write the local file, then mirror if a backend is attached; a mirror
\* failure is caught and printed
_save(cache, out) ==
    /\ data_file' = cache
    /\ remote_db' = IF sm = "attached" /\ out = "ok" THEN cache ELSE remote_db
    /\ raised' = FALSE

dmVars == <<articles_cache, data_file, remote_db, raised, last_call, next_uuid>>

\* a save_article that appends to the cache and leaves the write for later
save_article_unsaved(article_data, out) ==
    /\ articles_cache' =
            Append(articles_cache, prepare_article(article_data, next_uuid, now_ts))
    /\ next_uuid' = IF Has(article_data, "id") THEN next_uuid ELSE next_uuid + 1
    /\ raised' = FALSE
    /\ UNCHANGED <<data_file, remote_db>>
    /\ last_call' = [op |-> "save_article", arg |-> article_data, out |-> out]

\* save_article(article_data)
save_article(article_data, out) ==
    /\ articles_cache' =
            Append(articles_cache, prepare_article(article_data, next_uuid, now_ts))
    /\ next_uuid' = IF Has(article_data, "id") THEN next_uuid ELSE next_uuid + 1
    /\ _save(articles_cache', out)
    /\ last_call' = [op |-> "save_article", arg |-> article_data, out |-> out]

\* save_articles(articles_list), for a list of two
save_articles(first, second, out) ==
    LET a == prepare_article(first, next_uuid, now_ts)
        n == IF Has(first, "id") THEN next_uuid ELSE next_uuid + 1
        b == prepare_article(second, n, now_ts)
    IN  /\ articles_cache' = articles_cache \o <<a, b>>
        /\ next_uuid' = IF Has(second, "id") THEN n ELSE n + 1
        /\ _save(articles_cache', out)
        /\ last_call' = [op |-> "save_articles", arg |-> <<first, second>>, out |-> out]

\* update_article(article_id, updates)
update_article(article_id, updates, out) ==
    /\ articles_cache' = updated(articles_cache, article_id, updates)
    /\ _save(articles_cache', out)
    /\ last_call' = [op |-> "update_article", id |-> article_id, arg |-> updates,
                     out |-> out]
    /\ UNCHANGED next_uuid

\* delete_article(article_id, hard)
delete_article(article_id, hard, out) ==
    /\ articles_cache' = deleted(articles_cache, article_id, hard)
    /\ _save(articles_cache', out)
    /\ last_call' = [op |-> "delete_article", id |-> article_id, hard |-> hard,
                     out |-> out, before |-> articles_cache]
    /\ UNCHANGED next_uuid

\* truthiness of a url read with article.get("url")
truthy(url) == url # EmptyStr /\ url # NoneStr

\* purge_article(article_id): blacklist the record's url as stored, then remove
\* the record; nothing at all when no record has the id
purge_article(article_id, out) ==
    LET k == first_index(articles_cache, article_id)
        url == IF k = 0 THEN NoneStr ELSE Get(articles_cache[k], "url", NoneStr)
    IN  IF k = 0
        THEN /\ UNCHANGED <<articles_cache, data_file, remote_db, prefs, purged>>
             /\ raised' = FALSE
             /\ last_call' = [op |-> "purge_article", id |-> article_id, out |-> out,
                              found |-> FALSE, url |-> url]
             /\ UNCHANGED next_uuid
        ELSE /\ prefs' = IF truthy(url)
                         THEN dict_update(prefs, [deleted_urls |-> deleted_urls \cup {url}])
                         ELSE prefs
             /\ purged' = IF truthy(url) THEN purged \cup {url} ELSE purged
             /\ articles_cache' = without_id(articles_cache, article_id)
             /\ _save(articles_cache', out)
             /\ last_call' = [op |-> "purge_article", id |-> article_id, out |-> out,
                              found |-> TRUE, url |-> url]
             /\ UNCHANGED next_uuid

\* a reset that blacklists the url of every record it drops, as a purge would
clear_all_articles_blacklisting(out) ==
    /\ articles_cache' = <<>>
    /\ prefs' = dict_update(prefs,
                    [deleted_urls |-> deleted_urls \cup
                        {Get(a, "url", NoneStr) : a \in Range(articles_cache)}])
    /\ _save(articles_cache', out)
    /\ last_call' = [op |-> "clear_all_articles", out |-> out, before |-> articles_cache]
    /\ UNCHANGED next_uuid

\* clear_all_articles(): drop every record and save; the preferences file is
\* not written
clear_all_articles(out) ==
    /\ articles_cache' = <<>>
    /\ UNCHANGED prefs
    /\ _save(articles_cache', out)
    /\ last_call' = [op |-> "clear_all_articles", out |-> out, before |-> articles_cache]
    /\ UNCHANGED next_uuid

\* set_backend, lines 53-65: drop the remote records whose url is blacklisted
filtered_remote(remote_data, blacklist) ==
    LET norm == {NormalizeUrl(u) : u \in {x \in blacklist : x # EmptyStr}}
    IN  SelectSeq(remote_data,
                  LAMBDA a : LET url == NormalizeUrl(Get(a, "url", EmptyStr))
                             IN  ~(url # EmptyStr /\ url \in norm))

\* a merge in which the local version of a record wins over the remote one
merged_local_wins(local, remote_data) ==
    LET local_ids == {Get(local[k], "id", 0) : k \in 1..Len(local)}
    IN  local \o SelectSeq(remote_data, LAMBDA a : Get(a, "id", 0) \notin local_ids)

\* set_backend, lines 67-86: the remote records, then the local ones whose id
\* no remote record has
merged(local, remote_data) ==
    LET remote_ids == {Get(remote_data[k], "id", 0) : k \in 1..Len(remote_data)}
    IN  remote_data \o SelectSeq(local, LAMBDA a : Get(a, "id", 0) \notin remote_ids)

\* outcomes of SheetManager.load_db: the rows, [] after a read error that
\* load_db_rows swallows, or an exception from _get_db_sheet
LoadOutcomes == {"rows", "empty", "raise"}

\* set_backend(sheet_manager, sheet_name, load)
set_backend(load, loaded, out) ==
    LET remote_data == IF loaded = "rows" THEN remote_db ELSE <<>>
    IN  /\ sm' = "attached"
        /\ last_call' = [op |-> "set_backend", load |-> load, loaded |-> loaded,
                         out |-> out,
                         local |-> articles_cache, remote |-> remote_db,
                         blacklist |-> deleted_urls]
        /\ raised' = FALSE
        /\ UNCHANGED <<prefs, purged, next_uuid>>
        /\ IF ~load \/ loaded = "raise"
           THEN UNCHANGED <<articles_cache, data_file, remote_db>>
           ELSE IF remote_data # <<>>
           THEN /\ articles_cache' =
                       merged(articles_cache, filtered_remote(remote_data, deleted_urls))
                /\ data_file' = articles_cache'
                /\ UNCHANGED remote_db
           ELSE /\ articles_cache' =
                        IF articles_cache = <<>> THEN data_file ELSE articles_cache
                /\ remote_db' = IF articles_cache' # <<>> /\ out = "ok"
                                THEN articles_cache' ELSE remote_db
                /\ UNCHANGED data_file

----------------------------------------------------------------------------
(* Input values *)

UrlA == <<"https://x.com/a">>
UrlASlash == <<"https://x.com/a", "/">>
UrlB == <<"https://y.com/b">>

\* what the local file and the mirror hold when the process starts
Local1 == [id |-> 1, url |-> UrlA, status |-> "Not Started", notes |-> <<"local">>]
Local2 == [id |-> 2, url |-> UrlB, status |-> "Qualified", notes |-> <<"local">>]
Remote1 == [id |-> 1, url |-> UrlASlash, status |-> "Qualified", notes |-> <<"remote">>]
Remote3 == [id |-> 3, url |-> UrlB, status |-> "Not Started", notes |-> <<"remote">>]

LocalInits == {<<>>, <<Local1>>, <<Local1, Local2>>}
RemoteInits == {<<>>, <<Remote1>>, <<Remote3>>, <<Remote1, Remote3>>}

\* the first uuid4 draw: an id that no record above has
FirstUuid == Remote3["id"] + 1

ArticleInputs == {[url |-> UrlA], [url |-> UrlASlash, status |-> "Qualified"]}
UpdateInputs == {[status |-> "Completed", notes |-> <<"edited">>]}

\* the ids a caller addresses: those in the store, and 0, which no record has
Ids == {articles_cache[k]["id"] : k \in 1..Len(articles_cache)} \cup {0}

\* the mirror outcomes that can be told apart: none without a backend
Outcomes == IF sm = "attached" THEN MirrorOutcomes ELSE {"ok"}

----------------------------------------------------------------------------
(* The store interface: DataManager as its callers may drive it *)

\* no call of the normalizer by a caller of its own
InitNormIdle ==
    /\ nz_arg = <<>>
    /\ nz_in = <<>>
    /\ nz_out = <<>>

\* no url normalized on its own
InitUrlIdle ==
    /\ nu_in = <<>>
    /\ nu_out = <<>>
    /\ nu_state = "done"

\* no input spreadsheet
InitSheetIdle ==
    /\ sheet = <<>>
    /\ sh_existing = {}
    /\ sh_client = FALSE
    /\ sh_hist = <<>>

\* a new session: no timestamp in st.session_state, no sweep called yet
InitSession ==
    /\ last_email_check_ts = 0
    /\ fetched = <<>>
    /\ cd_call = [force |-> FALSE, credentials |-> FALSE, fetch |-> FALSE]

\* the connector is not called on its own
InitMailIdle ==
    /\ mailbox = <<>>
    /\ imap = "ok"
    /\ fetch_out = <<>>

\* no batch re-analysis was started in this session
InitQueueIdle ==
    /\ is_reanalyzing = FALSE
    /\ reanalyze_queue = <<>>
    /\ rq_sel = <<>>
    /\ rq_log = <<>>

InitLib ==
    /\ InitNormIdle
    /\ InitUrlIdle
    /\ InitSheetIdle
    /\ InitSession
    /\ InitMailIdle
    /\ InitQueueIdle

InitCycle ==
    /\ InitLib
    /\ pc = "idle"
    /\ api_key = TRUE
    /\ links = <<>>
    /\ new_links = <<>>
    /\ i = 0
    /\ saved_art = 0
    /\ processed = <<>>
    /\ sweeps = 0
    /\ inbox = {}

InitStore ==
    /\ articles_cache \in LocalInits
    /\ data_file = articles_cache
    /\ prefs = [font_size |-> FONT_SIZE]
    /\ sm = "None"
    /\ remote_db \in RemoteInits
    /\ next_uuid = FirstUuid
    /\ now_ts = 0
    /\ raised = FALSE
    /\ last_call = [op |-> "init", out |-> "ok"]
    /\ purged = {}
    /\ calls = 0
    /\ InitCycle

Room(n) == Len(articles_cache) + n <= MaxArticles /\ next_uuid + n <= FirstUuid + MaxDraws

Call ==
    /\ calls < MaxCalls
    /\ calls' = calls + 1

SaveArticle ==
    \E a \in ArticleInputs, out \in Outcomes :
        /\ Call
        /\ Room(1)
        /\ save_article(a, out)
        /\ UNCHANGED <<prefs, sm, purged, now_ts, libVars, cycleVars>>

SaveArticles ==
    \E a \in ArticleInputs, b \in ArticleInputs, out \in Outcomes :
        /\ a # b
        /\ Call
        /\ Room(2)
        /\ save_articles(a, b, out)
        /\ UNCHANGED <<prefs, sm, purged, now_ts, libVars, cycleVars>>

UpdateArticle ==
    \E id \in Ids, u \in UpdateInputs, out \in Outcomes :
        /\ Call
        /\ update_article(id, u, out)
        /\ UNCHANGED <<prefs, sm, purged, now_ts, libVars, cycleVars>>

DeleteArticle ==
    \E id \in Ids, hard \in BOOLEAN, out \in Outcomes :
        /\ Call
        /\ delete_article(id, hard, out)
        /\ UNCHANGED <<prefs, sm, purged, now_ts, libVars, cycleVars>>

PurgeArticle ==
    \E id \in Ids, out \in Outcomes :
        /\ Call
        /\ purge_article(id, out)
        /\ UNCHANGED <<sm, now_ts, libVars, cycleVars>>

ClearAllArticles ==
    \E out \in Outcomes :
        /\ Call
        /\ clear_all_articles(out)
        /\ UNCHANGED <<sm, purged, now_ts, libVars, cycleVars>>

SetBackend ==
    \E load \in BOOLEAN, loaded \in LoadOutcomes, out \in MirrorOutcomes :
        /\ sm = "None"
        /\ ~load => loaded = "rows" /\ out = "ok"
        /\ loaded = "raise" => out = "ok"
        /\ Call
        /\ set_backend(load, loaded, out)
        /\ UNCHANGED <<now_ts, libVars, cycleVars>>

NextStore ==
    \/ SaveArticle
    \/ SaveArticles
    \/ UpdateArticle
    \/ DeleteArticle
    \/ PurgeArticle
    \/ ClearAllArticles
    \/ SetBackend

SpecStore == InitStore /\ [][NextStore]_vars

\* a record that brings its own id, added_at and notes, as the payload that
\* app.py line 885 saves can
OwnIdInputs == {[id |-> Local1["id"], url |-> UrlB, added_at |-> 0 - 1,
                 notes |-> <<"mine">>]}

\* save_article on a record that has an id already
SaveWithId ==
    \E a \in OwnIdInputs, out \in Outcomes :
        /\ Call
        /\ Room(1)
        /\ save_article(a, out)
        /\ UNCHANGED <<prefs, sm, purged, now_ts, libVars, cycleVars>>

\* the calls that add and change records, ids of the caller's own included
NextSave ==
    \/ SaveArticle
    \/ SaveArticles
    \/ SaveWithId
    \/ UpdateArticle
    \/ SetBackend

SpecSave == InitStore /\ [][NextSave]_vars

----------------------------------------------------------------------------
(* JSON values and utils.py: normalize_analysis *)

Null == <<"null">>
Str(s) == <<"str", s>>
List(items) == <<"list", items>>
IsStr(v) == v[1] = "str"
IsList(v) == v[1] = "list"
IsDict(v) == v[1] = "dict"

\* json.loads(s), and ast.literal_eval(s) after it, of a field's text: the value
\* when the text encodes one, <<"fail">> when both raise
Dict(d) == <<"dict", d>>
Num == <<"num">>
EncodedList == <<"[\"a\", \"b\"]">>
EncodedDict == <<"{\"k\": \"v\"}">>
EncodedStr == <<"\"quoted\"">>
EncodedNum == <<"5">>
literal_value(s) ==
    CASE s = EncodedList -> List(<<Str(<<"a">>), Str(<<"b">>)>>)
      [] s = EncodedDict -> Dict([k |-> Str(<<"v">>)])
      [] s = EncodedStr -> Str(<<"quoted">>)
      [] s = EncodedNum -> Num
      [] OTHER -> <<"fail">>

list_fields == <<"full_summary_bullets", "people_mentioned", "prevention_strategies",
                 "discovery_questions", "organizations_involved", "tl_dr">>

\* a round of the loop that wraps whatever it finds in one more list
normalize_field_wrapping(data, key) ==
    LET val == Get(data, key, Null)
    IN  IF val = Null THEN dict_update(data, key :> List(<<>>))
        ELSE dict_update(data, key :> List(<<val>>))

\* one round of the loop of normalize_analysis, lines 17-36
normalize_field(data, key) ==
    LET val == Get(data, key, Null)
    IN  IF IsStr(val)
        THEN LET s == strip(val[2])
                 parsed == literal_value(s)
             IN  IF IsList(parsed) \/ IsDict(parsed) THEN dict_update(data, key :> parsed)
                 ELSE IF s # EmptyStr THEN dict_update(data, key :> List(<<Str(s)>>))
                 ELSE dict_update(data, key :> List(<<>>))
        ELSE IF val = Null THEN dict_update(data, key :> List(<<>>))
        ELSE data

RECURSIVE normalize_fields(_, _)
normalize_fields(data, keys) ==
    IF keys = <<>> THEN data
    ELSE normalize_fields(normalize_field(data, Head(keys)), Tail(keys))

\* normalize_analysis(data) for a dict
normalize_analysis(data) ==
    LET d == normalize_fields(data, list_fields)
    IN  IF ~Has(d, "tl_dr") /\ Has(d, "summary")
        THEN dict_update(d, "tl_dr" :> Get(d, "summary", Null))
        ELSE d

----------------------------------------------------------------------------
(* app.py: what the capabilities return *)

BAD_LINK == <<"Unknown - Bad Link?">>
Budget == 60

\* scrape_article(url): the text, or "Error: ..." (lines 123, 142, 144)
ScrapeError == <<"Error", ": HTTP 404">>
ScrapeText == <<"article text">>

\* what requests.get brought: a response with status 200 and the text of the
\* paragraphs of its page, or no such response and the last error
PageMissing == [resp |-> FALSE, text |-> EmptyStr, last_err |-> <<"HTTP 404">>]
PageArticle == [resp |-> TRUE, text |-> ScrapeText, last_err |-> EmptyStr]
PageErrorReport ==
    [resp |-> TRUE, text |-> <<"Error", "s in the audit were found">>, last_err |-> EmptyStr]

\* scrape_article(url), lines 122-123 and 142: "Error: " and the last error
\* without a response, else text_content[:15000], which is the whole text of the
\* pages here
scrape_article(page) ==
    IF ~page.resp THEN <<"Error", ": " \o page.last_err[1]>> ELSE page.text

Pages == {PageMissing, PageArticle}
AllPages == Pages \cup {PageErrorReport}
ScrapeResults == {scrape_article(page) : page \in Pages}

\* analyze_with_chatgpt(txt, api_key): the model's message content, or
\* "Error calling OpenAI: ..." (lines 188, 203)
AnalyzeError == <<"Error", " calling OpenAI: timed out">>
DocGarbage == <<"I'm sorry, I cannot read this article">>
DocPlain == <<"{\"article_title\": \"T\", \"tl_dr\": \"two sentences\", \"people_mentioned\": null, \"full_summary_bullets\": \"[\\\"a\\\", \\\"b\\\"]\", \"allegations\": \"None\"}">>
DocBadLink == <<"{\"article_title\": \"T\", \"tl_dr\": \"Unknown - Bad Link?\"}">>
AnalyzeResults == {AnalyzeError, DocGarbage, DocPlain, DocBadLink}

\* a document with keys of its own beside those asked for: an "id"
DocWithId == <<"{\"article_title\": \"T\", \"id\": 1}">>
PayloadId == Local1["id"]

\* json.loads(res): the documents that parse, and what they parse to
json_parses(res) == res \in {DocPlain, DocBadLink, DocWithId}
json_loads(res) ==
    IF res = DocPlain
    THEN [article_title |-> Str(<<"T">>), tl_dr |-> Str(<<"two sentences">>),
          people_mentioned |-> Null, full_summary_bullets |-> Str(EncodedList),
          allegations |-> Str(<<"None">>)]
    ELSE IF res = DocWithId
    THEN [article_title |-> Str(<<"T">>), id |-> PayloadId]
    ELSE [article_title |-> Str(<<"T">>), tl_dr |-> Str(BAD_LINK)]

\* seconds the scrape and the analysis of one candidate take
ScrapeSeconds == {20, 61}
AnalyzeSeconds == {20, 45}

----------------------------------------------------------------------------
(* app.py: mark_url_deleted and maybe_auto_check_email *)

\* mark_url_deleted(url): the preferences after it
mark_url_deleted(url) ==
    IF ~truthy(url) \/ url \in deleted_urls THEN prefs
    ELSE dict_update(prefs, [deleted_urls |-> deleted_urls \cup {url}])

\* line 330: existing_urls
existing_urls ==
    {Get(articles_cache[k], "url", NoneStr) : k \in 1..Len(articles_cache)} \ {NoneStr, EmptyStr}

\* line 331: new_links
new_links_of(output) ==
    SelectSeq(output, LAMBDA l : l \notin existing_urls /\ l \notin deleted_urls)

\* lines 346-352: the placeholder record
placeholder(url, now) ==
    [url |-> url, status |-> "In Process", article_title |-> Str(<<"Analyzing...">>),
     added_at |-> now, source |-> "email"]

\* an analysis failure handled like a scrape failure
analysis_error_status_error(res) == [last_error |-> res, status |-> "Error"]

\* the updates of lines 366, 378, 410, 412 and 390-406
scrape_error_updates(txt) == [last_error |-> txt, status |-> "Error"]
analysis_error_updates(res) == [last_error |-> res, status |-> "Not Started"]
parse_error_updates == [last_error |-> <<"JSON Parse Error">>]
no_key_updates == [last_error |-> <<"No API Key">>]
success_updates(data) ==
    [status |-> "Not Started",
     article_title |-> Get(data, "article_title", Str(<<"Unknown Title">>)),
     date |-> Get(data, "date", Null),
     date_verification |-> Get(data, "date_verification", Null),
     fraud_indicator |-> Get(data, "fraud_indicator", Null),
     tl_dr |-> Get(data, "tl_dr", Get(data, "summary", Null)),
     full_summary_bullets |-> Get(data, "full_summary_bullets", Null),
     organizations_involved |-> Get(data, "organizations_involved", Null),
     allegations |-> Get(data, "allegations", Null),
     current_situation |-> Get(data, "current_situation", Null),
     next_steps |-> Get(data, "next_steps", Null),
     people_mentioned |-> Get(data, "people_mentioned", Null),
     prevention_strategies |->
         Get(data, "prevention_strategies", Get(data, "prevention", Null)),
     discovery_questions |-> Get(data, "discovery_questions", Null),
     last_error |-> EmptyStr]

\* line 383-384: the bad-link test on the normalized payload
is_bad_link(data) ==
    LET tl_val == Get(data, "tl_dr", Get(data, "summary", Str(EmptyStr)))
    IN  IsStr(tl_val) /\ strip(tl_val[2]) = BAD_LINK

\* lines 356-412: what happens to the placeholder article_id of url, given what
\* the scrape returned after elapsed1 seconds and, when it was invoked, what the
\* analysis returned after elapsed2 seconds in all
candidate_step(url, article_id, txt, elapsed1, res, elapsed2, out) ==
    IF elapsed1 > Budget
    THEN delete_article(article_id, FALSE, out) /\ UNCHANGED prefs
    ELSE IF startswith(txt, "Error")
    THEN update_article(article_id, scrape_error_updates(txt), out) /\ UNCHANGED prefs
    ELSE IF ~api_key
    THEN update_article(article_id, no_key_updates, out) /\ UNCHANGED prefs
    ELSE IF elapsed2 > Budget
    THEN delete_article(article_id, FALSE, out) /\ UNCHANGED prefs
    ELSE IF startswith(res, "Error")
    THEN update_article(article_id, analysis_error_updates(res), out) /\ UNCHANGED prefs
    ELSE IF ~json_parses(res)
    THEN update_article(article_id, parse_error_updates, out) /\ UNCHANGED prefs
    ELSE LET data == normalize_analysis(json_loads(res))
         IN  IF is_bad_link(data)
             THEN /\ prefs' = mark_url_deleted(url)
                  /\ delete_article(article_id, FALSE, out)
             ELSE /\ update_article(article_id, success_updates(data), out)
                  /\ UNCHANGED prefs

\* the analysis is invoked (line 369)
analysis_invoked(txt, elapsed1) ==
    elapsed1 <= Budget /\ ~startswith(txt, "Error") /\ api_key

UrlFavicon == <<"https://x.com/", "favicon">>
LinkUrls == {UrlA, UrlASlash, UrlB, UrlFavicon}

\* list(links) of a set of links: its members, here in the order of LinkOrder
LinkOrder == <<UrlA, UrlFavicon, UrlASlash, UrlB>>
as_list(S) == SelectSeq(LinkOrder, LAMBDA l : l \in S)

\* EmailManager.fetch_new_links: list(links) of a set of links, or "Error: ..."
ConnectorOutputs ==
    {[error |-> FALSE, links |-> as_list(S)] :
        S \in {T \in SUBSET LinkUrls : Cardinality(T) <= MaxLinks}}
        \cup {[error |-> TRUE, links |-> <<>>]}

\* line 298: the cooldown of a sweep that is not forced, in seconds
Cooldown == 60

\* a gate that lets a sweep that is not forced through whatever the timestamp
fetches_without_cooldown(force, credentials) == credentials

\* lines 289-299: the call goes on to the connector iff the credentials are
\* there and it is forced or the cooldown is over
fetches(force, credentials) ==
    /\ credentials
    /\ force \/ now_ts - last_email_check_ts >= Cooldown

\* line 331 for the connector's output
candidates_of(output) == IF output.error THEN <<>> ELSE new_links_of(output.links)

\* maybe_auto_check_email, lines 287-341: up to the loop
maybe_auto_check_email(force, credentials, output) ==
    /\ pc = "idle"
    /\ cd_call' = [force |-> force, credentials |-> credentials,
                   fetch |-> fetches(force, credentials)]
    /\ IF fetches(force, credentials)
       THEN /\ last_email_check_ts' = now_ts
            /\ fetched' = Append(fetched, [at |-> now_ts, force |-> force])
            /\ sweeps' = sweeps + 1
            /\ IF candidates_of(output) = <<>>
               THEN UNCHANGED <<pc, i, links, new_links>>
               ELSE /\ pc' = "save"
                    /\ i' = 1
                    /\ links' = output.links
                    /\ new_links' = candidates_of(output)
       ELSE UNCHANGED <<last_email_check_ts, fetched, sweeps, pc, i, links, new_links>>
    /\ UNCHANGED <<storeVars, now_ts, toolVars, api_key, saved_art, processed, inbox>>

\* line 1032: the Check Email button, with the credentials configured
CheckEmail ==
    \E output \in inbox :
        /\ sweeps < MaxSweeps
        /\ Len(articles_cache) + Len(candidates_of(output)) <= MaxArticles
        /\ maybe_auto_check_email(TRUE, TRUE, output)
        /\ UNCHANGED calls

\* lines 342-353: skip a favicon link, else save the placeholder
SavePlaceholder ==
    /\ pc = "save"
    /\ i <= Len(new_links)
    /\ IF contains(new_links[i], "favicon")
       THEN /\ i' = i + 1
            /\ processed' = Append(processed,
                   [url |-> new_links[i], id |-> 0, skipped |-> TRUE, resp |-> FALSE,
                    txt |-> EmptyStr,
                    elapsed1 |-> 0, invoked |-> FALSE, res |-> EmptyStr, elapsed2 |-> 0])
            /\ UNCHANGED <<storeVars, pc, saved_art>>
       ELSE /\ \E out \in Outcomes : save_article(placeholder(new_links[i], now_ts), out)
            /\ saved_art' = next_uuid
            /\ pc' = "scrape"
            /\ UNCHANGED <<prefs, sm, purged, i, processed>>
    /\ UNCHANGED <<now_ts, libVars, api_key, links, new_links, sweeps, inbox, calls>>

\* lines 356-416: scrape, analyze and record the outcome of one candidate whose
\* url leads to one of these pages
process_candidate(pages) ==
    /\ \E page \in pages, d1 \in ScrapeSeconds, out \in Outcomes :
         LET txt == scrape_article(page)
             invoked == analysis_invoked(txt, d1)
         IN  \E res \in (IF invoked THEN AnalyzeResults ELSE {EmptyStr}),
                d2 \in (IF invoked THEN AnalyzeSeconds ELSE {0}) :
                 /\ candidate_step(new_links[i], saved_art, txt, d1, res, d1 + d2, out)
                 /\ processed' = Append(processed,
                        [url |-> new_links[i], id |-> saved_art, skipped |-> FALSE,
                         resp |-> page.resp, txt |-> txt, elapsed1 |-> d1,
                         invoked |-> invoked, res |-> res, elapsed2 |-> d1 + d2])
    /\ i' = i + 1
    /\ pc' = "save"
    /\ UNCHANGED <<sm, purged, now_ts, libVars, api_key, links, new_links, saved_art, sweeps,
                   inbox, calls>>

ProcessCandidate ==
    /\ pc = "scrape"
    /\ process_candidate(Pages)

\* the same step when a page may also be a report whose text begins with "Error"
ProcessAnyPage ==
    /\ pc = "scrape"
    /\ process_candidate(AllPages)

\* lines 418-419: the loop is over, the handler returns and its locals are gone
FinishSweep ==
    /\ pc = "save"
    /\ i > Len(new_links)
    /\ pc' = "idle"
    /\ links' = <<>>
    /\ new_links' = <<>>
    /\ i' = 0
    /\ saved_art' = 0
    /\ processed' = <<>>
    /\ UNCHANGED <<storeVars, now_ts, libVars, api_key, sweeps, inbox, calls>>

----------------------------------------------------------------------------
(* app.py: dashboard handlers *)

\* a handler runs once per click; MaxClicks clicks are explored
Click ==
    /\ calls < MaxClicks
    /\ calls' = calls + 1

UrlATrailingSpace == <<"https://x.com/a", " ">>
ManualInputs == {UrlA, UrlASlash, UrlATrailingSpace}

\* what analyze_with_chatgpt returns to the handlers; the update dicts of the
\* ingestion cycle take no key but the thirteen they name, so the cycle draws
\* from AnalyzeResults
HandlerAnalyzeResults == AnalyzeResults \cup {DocWithId}

\* dashboard_page, lines 805-891: "Analyze URL"
ManualSubmitUrl ==
    \E url_input \in ManualInputs, txt \in ScrapeResults, res \in HandlerAnalyzeResults :
        LET target_content == strip(url_input)
            accepted ==
                /\ ~contains(target_content, "favicon")
                /\ target_content \notin deleted_urls
                /\ \A k \in 1..Len(articles_cache) :
                       Get(articles_cache[k], "url", NoneStr) # target_content
                /\ api_key
                /\ ~startswith(txt, "Error")
                /\ ~startswith(res, "Error")
                /\ json_parses(res)
        IN  /\ pc = "idle"
            /\ Click
            /\ Len(articles_cache) < MaxArticles
            /\ IF accepted
               THEN \E out \in Outcomes :
                       save_article(dict_update(normalize_analysis(json_loads(res)),
                                                [url |-> target_content, source |-> "url"]),
                                    out)
               ELSE UNCHANGED dmVars
            /\ UNCHANGED <<prefs, sm, purged, now_ts, libVars, cycleVars>>

\* dashboard_page, lines 1068-1079 and 1353-1358: delete one selected record
DeleteSelected ==
    \E aid \in Ids \ {0}, out \in Outcomes :
        LET url_del == Get(articles_cache[first_index(articles_cache, aid)], "url", NoneStr)
        IN  /\ pc = "idle"
            /\ Click
            /\ prefs' = mark_url_deleted(url_del)
            /\ delete_article(aid, FALSE, out)
            /\ UNCHANGED <<sm, purged, now_ts, libVars, cycleVars>>

\* main, lines 517-523: the font size is changed in the sidebar
OtherFontSize == FONT_SIZE + 1
SaveFontSize ==
    /\ pc = "idle"
    /\ Click
    /\ prefs' = [font_size |-> IF prefs["font_size"] = FONT_SIZE THEN OtherFontSize
                               ELSE FONT_SIZE]
    /\ UNCHANGED <<articles_cache, data_file, sm, remote_db, next_uuid, raised,
                   last_call, purged, now_ts, libVars, cycleVars>>

\* updates that are the payload itself, with every key it has
reanalysis_updates_whole(d) == dict_update(d, [last_error |-> EmptyStr])

\* lines 1240-1254: the updates of "Reanalyze" in the details view
reanalysis_updates(d) ==
    [article_title |-> Get(d, "article_title", Null),
     date |-> Get(d, "date", Null),
     fraud_indicator |-> Get(d, "fraud_indicator", Null),
     tl_dr |-> Get(d, "tl_dr", Get(d, "summary", Null)),
     full_summary_bullets |-> Get(d, "full_summary_bullets", Null),
     organizations_involved |-> Get(d, "organizations_involved", Null),
     allegations |-> Get(d, "allegations", Null),
     current_situation |-> Get(d, "current_situation", Null),
     next_steps |-> Get(d, "next_steps", Null),
     people_mentioned |-> Get(d, "people_mentioned", Null),
     prevention_strategies |-> Get(d, "prevention_strategies", Get(d, "prevention", Null)),
     discovery_questions |-> Get(d, "discovery_questions", Null),
     last_error |-> EmptyStr]

\* dashboard_page, lines 1219-1262: "Reanalyze" of the record in the details view
Reanalyze ==
    \E aid \in Ids \ {0}, txt \in ScrapeResults, res \in HandlerAnalyzeResults :
        LET article == articles_cache[first_index(articles_cache, aid)]
            done ==
                /\ api_key
                /\ truthy(Get(article, "url", NoneStr))
                /\ ~startswith(txt, "Error")
                /\ ~startswith(res, "Error")
                /\ json_parses(res)
        IN  /\ pc = "idle"
            /\ Click
            /\ IF done
               THEN \E out \in Outcomes :
                       update_article(aid,
                           reanalysis_updates(normalize_analysis(json_loads(res))), out)
               ELSE UNCHANGED dmVars
            /\ UNCHANGED <<prefs, sm, purged, now_ts, libVars, cycleVars>>

\* lines 734-749: the updates of the re-analysis queue, which keep what the
\* record has where the payload has nothing
queued_updates(d, row) ==
    LET keep(key) == Get(d, key, Get(row, key, Null))
    IN  [article_title |-> keep("article_title"),
         date |-> keep("date"),
         date_verification |-> keep("date_verification"),
         fraud_indicator |-> keep("fraud_indicator"),
         tl_dr |-> Get(d, "tl_dr", Get(d, "summary",
                       Get(row, "tl_dr", Get(row, "summary", Null)))),
         full_summary_bullets |-> keep("full_summary_bullets"),
         organizations_involved |-> keep("organizations_involved"),
         allegations |-> keep("allegations"),
         current_situation |-> keep("current_situation"),
         next_steps |-> keep("next_steps"),
         people_mentioned |-> keep("people_mentioned"),
         prevention_strategies |->
             Get(d, "prevention_strategies",
                 Get(row, "prevention_strategies", Get(row, "prevention", Null))),
         discovery_questions |-> keep("discovery_questions"),
         last_error |-> EmptyStr]

\* line 677-678: articles_map.get(current_id); of two records with one id the
\* map holds the later one
row_of(current_id) ==
    LET ks == {k \in 1..Len(articles_cache) : articles_cache[k]["id"] = current_id}
    IN  articles_cache[CHOOSE k \in ks : \A j \in ks : j <= k]

\* lines 689-755: what one step of the queue does to the record with this id
reanalyze_queued(current_id, txt, res, out) ==
    IF first_index(articles_cache, current_id) = 0 \/ ~api_key
    THEN UNCHANGED dmVars
    ELSE IF ~truthy(Get(row_of(current_id), "url", NoneStr))
    THEN update_article(current_id, [last_error |-> <<"Missing URL">>], out)
    ELSE IF startswith(txt, "Error")
    THEN delete_article(current_id, FALSE, out)
    ELSE IF startswith(res, "Error")
    THEN update_article(current_id, analysis_error_updates(res), out)
    ELSE IF ~json_parses(res)
    THEN update_article(current_id, parse_error_updates, out)
    ELSE update_article(current_id,
             queued_updates(normalize_analysis(json_loads(res)), row_of(current_id)), out)

\* the ids a user can have selected: those of the store, and 0 for a selection
\* that no record answers to
Selections ==
    {sel \in UNION {[1..n -> Ids] : n \in 1..MaxQueue} :
        \A j, k \in 1..Len(sel) : sel[j] = sel[k] => j = k}

\* queue.pop() where the code has queue.pop(0)
popped_last(queue) == SubSeq(queue, 1, Len(queue) - 1)

\* line 674-675: the queue after queue.pop(0)
popped(queue) == Tail(queue)

\* a batch takes the run of the click and one rerun for each id selected: MaxOps
\* runs are explored
Reruns(sel) ==
    /\ sweeps + calls + Len(sel) < MaxOps
    /\ calls' = calls + Len(sel) + 1

\* lines 1055-1065: Reanalyze Selected
StartReanalysis ==
    \E sel \in Selections :
        /\ pc = "idle"
        /\ ~is_reanalyzing
        /\ Reruns(sel)
        /\ IF ~api_key
           THEN UNCHANGED queueVars
           ELSE /\ reanalyze_queue' = sel
                /\ is_reanalyzing' = TRUE
                /\ rq_sel' = sel
                /\ rq_log' = <<>>
        /\ UNCHANGED <<storeVars, now_ts, cycleVars, coolVars, normVars, urlVars,
                       sheetVars, mailVars>>

\* dashboard_page, lines 664-757, queue not empty: one rerun takes the first id
\* of the queue and re-analyses its record
ReanalyzeQueued ==
    /\ pc = "idle"
    /\ is_reanalyzing
    /\ reanalyze_queue # <<>>
    /\ reanalyze_queue' = popped(reanalyze_queue)
    /\ rq_log' = Append(rq_log, Head(reanalyze_queue))
    /\ \E txt \in ScrapeResults, res \in HandlerAnalyzeResults, out \in Outcomes :
           reanalyze_queued(Head(reanalyze_queue), txt, res, out)
    /\ UNCHANGED <<prefs, sm, purged, now_ts, cycleVars, calls, coolVars, normVars,
                   urlVars, sheetVars, mailVars, is_reanalyzing, rq_sel>>

\* lines 664-672, queue empty: the batch is over
QueueDone ==
    /\ pc = "idle"
    /\ is_reanalyzing
    /\ reanalyze_queue = <<>>
    /\ is_reanalyzing' = FALSE
    /\ rq_sel' = <<>>
    /\ rq_log' = <<>>
    /\ UNCHANGED <<storeVars, now_ts, cycleVars, calls, coolVars, normVars, urlVars,
                   sheetVars, mailVars, reanalyze_queue>>

\* lines 1391-1401, 1429-1436 and 1477-1481: what the edit callbacks pass to
\* update_article
EditInputs ==
    {[article_title |-> Str(<<"edited title">>)],
     [status |-> "Qualified", priority |-> "High"],
     [notes |-> <<"edited">>]}

\* dashboard_page: an edit of the record in the details view
EditRecord ==
    \E aid \in Ids \ {0}, updates \in EditInputs, out \in Outcomes :
        /\ pc = "idle"
        /\ Click
        /\ update_article(aid, updates, out)
        /\ UNCHANGED <<prefs, sm, purged, now_ts, libVars, cycleVars>>

\* purge_article called on a record of the store
Purge ==
    \E id \in Ids \ {0}, out \in Outcomes :
        /\ pc = "idle"
        /\ Click
        /\ purge_article(id, out)
        /\ UNCHANGED <<sm, now_ts, libVars, cycleVars>>

InitFresh ==
    /\ articles_cache = <<>>
    /\ data_file = <<>>
    /\ prefs = [font_size |-> FONT_SIZE]
    /\ sm = "None"
    /\ remote_db = <<>>
    /\ next_uuid = FirstUuid
    /\ now_ts = 0
    /\ raised = FALSE
    /\ last_call = [op |-> "init", out |-> "ok"]
    /\ purged = {}
    /\ calls = 0
    /\ pc = "idle"
    /\ api_key \in BOOLEAN
    /\ links = <<>>
    /\ new_links = <<>>
    /\ i = 0
    /\ saved_art = 0
    /\ processed = <<>>
    /\ sweeps = 0

\* a fresh installation; the connector may deliver any output at each cycle
Init ==
    /\ InitFresh
    /\ InitLib
    /\ inbox = ConnectorOutputs

\* a fresh installation; the connector delivers the same output at each cycle
InitTwice ==
    /\ InitFresh
    /\ InitLib
    /\ \E output \in ConnectorOutputs : inbox = {output}

\* ingestion cycles
Next ==
    \/ CheckEmail
    \/ SavePlaceholder
    \/ ProcessCandidate
    \/ FinishSweep

\* ingestion cycles and the dashboard handlers between them
NextApp ==
    \/ CheckEmail
    \/ SavePlaceholder
    \/ ProcessCandidate
    \/ FinishSweep
    \/ ManualSubmitUrl
    \/ DeleteSelected
    \/ SaveFontSize
    \/ Purge

Spec == Init /\ [][Next]_vars
SpecTwice == InitTwice /\ [][Next]_vars
SpecApp == Init /\ [][NextApp]_vars

\* a fresh installation; the connector delivers at most one link at each cycle
InitEdit ==
    /\ InitFresh
    /\ InitLib
    /\ inbox = {output \in ConnectorOutputs : Len(output.links) <= 1}

\* dashboard_page, lines 664-757: a run that finds ids in the queue ends in
\* st.rerun() before anything else of the page is reached
Rendered == ~(is_reanalyzing /\ reanalyze_queue # <<>>)

\* a cycle or a handler may start: MaxOps of them are explored
Op == Rendered /\ sweeps + calls < MaxOps

\* ingestion cycles, and the handlers that change records that exist
NextEdit ==
    \/ Op /\ CheckEmail
    \/ SavePlaceholder
    \/ ProcessCandidate
    \/ FinishSweep
    \/ Op /\ DeleteSelected
    \/ Op /\ Reanalyze
    \/ Op /\ StartReanalysis
    \/ ReanalyzeQueued
    \/ QueueDone
    \/ Op /\ EditRecord

SpecEdit == InitEdit /\ [][NextEdit]_vars

\* ingestion cycles over any of the pages
NextScrape ==
    \/ CheckEmail
    \/ SavePlaceholder
    \/ ProcessAnyPage
    \/ FinishSweep

SpecScrape == InitEdit /\ [][NextScrape]_vars

\* a store of two records and a session without a batch
InitQueue ==
    /\ InitStore
    /\ articles_cache = <<Local1, Local2>>
    /\ remote_db = <<>>

\* batch re-analysis only
NextQueue ==
    \/ StartReanalysis
    \/ ReanalyzeQueued
    \/ QueueDone

SpecQueue == InitQueue /\ [][NextQueue]_vars

\* every rerun that st.rerun() asks for at line 757 takes place, and so does the
\* rerun that finds the queue empty
SpecQueueLive ==
    /\ SpecQueue
    /\ WF_vars(ReanalyzeQueued)
    /\ WF_vars(QueueDone)

\* line 294: datetime.now().timestamp() when the session starts, more than a
\* cooldown after the epoch
StartTime == 100

\* the seconds that pass between two events of a session
Ticks == {29, 30, 31}

\* a fresh installation and a new session; the connector finds nothing, fails,
\* or delivers one link
InitCooldown ==
    /\ articles_cache = <<>>
    /\ data_file = <<>>
    /\ prefs = [font_size |-> FONT_SIZE]
    /\ sm = "None"
    /\ remote_db = <<>>
    /\ next_uuid = FirstUuid
    /\ now_ts = StartTime
    /\ raised = FALSE
    /\ last_call = [op |-> "init", out |-> "ok"]
    /\ purged = {}
    /\ calls = 0
    /\ pc = "idle"
    /\ api_key = FALSE
    /\ links = <<>>
    /\ new_links = <<>>
    /\ i = 0
    /\ saved_art = 0
    /\ processed = <<>>
    /\ sweeps = 0
    /\ inbox = {[error |-> TRUE, links |-> <<>>], [error |-> FALSE, links |-> <<>>],
                [error |-> FALSE, links |-> <<UrlA>>]}
    /\ InitLib

\* the wall clock moves on
Tick ==
    \E d \in Ticks :
        /\ now_ts + d <= StartTime + MaxElapsed
        /\ now_ts' = now_ts + d
        /\ UNCHANGED <<storeVars, cycleVars, libVars, calls>>

\* lines 1032 and 1142: the Check Email button (forced) and the call at the
\* end of every rendering of the dashboard (not forced), with or without the
\* credentials configured
AutoCheckEmail ==
    \E force \in BOOLEAN, credentials \in BOOLEAN, output \in inbox :
        /\ sweeps < MaxSweeps \/ ~fetches(force, credentials)
        /\ Len(articles_cache) + Len(candidates_of(output)) <= MaxArticles
        /\ Call
        /\ maybe_auto_check_email(force, credentials, output)

\* a session: renderings and clicks that call the sweep, while time passes
NextCooldown ==
    \/ AutoCheckEmail
    \/ Tick
    \/ SavePlaceholder
    \/ ProcessCandidate
    \/ FinishSweep

SpecCooldown == InitCooldown /\ [][NextCooldown]_vars

----------------------------------------------------------------------------
(* Claims about the store interface *)

StoreOps == {"save_article", "save_articles", "update_article", "delete_article",
             "purge_article", "clear_all_articles"}

\* the last call was a store call whose mirror write raised
MirrorRaised ==
    /\ sm = "attached"
    /\ last_call.op \in StoreOps
    /\ last_call.out = "raise"

Carries(a, fields) == \A k \in DOMAIN fields : Has(a, k) /\ a[k] = fields[k]

NoRecordWithId(store, id) == \A k \in 1..Len(store) : store[k]["id"] # id

\* what the last call did is to be seen in store
EffectVisible(store) ==
    CASE last_call.op = "save_article" ->
            Len(store) >= 1 /\ Carries(store[Len(store)], last_call.arg)
      [] last_call.op = "save_articles" ->
            /\ Len(store) >= 2
            /\ Carries(store[Len(store) - 1], last_call.arg[1])
            /\ Carries(store[Len(store)], last_call.arg[2])
      [] last_call.op = "update_article" ->
            LET k == first_index(store, last_call.id)
            IN  k # 0 => Carries(store[k], last_call.arg)
      [] last_call.op = "delete_article" ->
            IF last_call.hard THEN NoRecordWithId(store, last_call.id)
            ELSE LET k == first_index(store, last_call.id)
                 IN  k # 0 => store[k]["status"] = "Deleted"
      [] last_call.op = "purge_article" -> NoRecordWithId(store, last_call.id)
      [] last_call.op = "clear_all_articles" -> store = <<>>
      [] OTHER -> TRUE

\* C7: a store call whose mirror write raises still completes without error, and
\* what it did is in get_all_articles and in the local file.
C7_MirrorFailureSwallowed ==
    MirrorRaised =>
        /\ ~raised
        /\ EffectVisible(get_all_articles)
        /\ EffectVisible(data_file)
        /\ data_file = get_all_articles

\* a soft delete of a record of the store whose mirror write raised
C7_Witness ==
    /\ MirrorRaised
    /\ last_call.op = "delete_article"
    /\ ~last_call.hard
    /\ first_index(articles_cache, last_call.id) # 0
    /\ remote_db # articles_cache

\* the last call was set_backend(load=True) and the mirror had rows to load
AfterAttach ==
    /\ last_call.op = "set_backend"
    /\ last_call.load
    /\ last_call.loaded = "rows"
    /\ last_call.remote # <<>>

IdsOf(records) == {Get(a, "id", 0) : a \in records}

\* C6 as claimed: every remote record is in the cache in place of any local record
\* with its id, every record that was only local is still there, and nothing else is.
C6_AttachMergeAsClaimed ==
    AfterAttach =>
        LET remote == Range(last_call.remote)
            local == Range(last_call.local)
            cache == Range(articles_cache)
        IN  /\ \A r \in remote : r \in cache
            /\ \A a \in cache : a["id"] \in IdsOf(remote) => a \in remote
            /\ \A l \in local : l["id"] \notin IdsOf(remote) => l \in cache
            /\ \A a \in cache :
                    a \in remote \/ (a \in local /\ a["id"] \notin IdsOf(remote))

\* a remote record set_backend keeps: its url is not on the blacklist
Blacklisted(r, blacklist) ==
    /\ NormalizeUrl(Get(r, "url", EmptyStr)) # EmptyStr
    /\ \E u \in blacklist :
            u # EmptyStr /\ NormalizeUrl(u) = NormalizeUrl(Get(r, "url", EmptyStr))

\* C6 as amended: the same, of the remote records whose url is not blacklisted;
\* the blacklisted ones are left out, and a local record stays unless a remote
\* record that is kept has its id.
C6_AttachMerge ==
    AfterAttach =>
        LET kept == {r \in Range(last_call.remote) : ~Blacklisted(r, last_call.blacklist)}
            local == Range(last_call.local)
            cache == Range(articles_cache)
        IN  /\ \A r \in kept : r \in cache
            /\ \A a \in cache : a["id"] \in IdsOf(kept) => a \in kept
            /\ \A l \in local : l["id"] \notin IdsOf(kept) => l \in cache
            /\ \A a \in cache :
                    a \in kept \/ (a \in local /\ a["id"] \notin IdsOf(kept))

\* an attach that left out a blacklisted remote record, replaced a local record
\* by its remote version and kept a record that was only local
C6_Witness ==
    /\ AfterAttach
    /\ \E r \in Range(last_call.remote) : Blacklisted(r, last_call.blacklist)
    /\ \E l \in Range(last_call.local) :
            /\ l \notin Range(articles_cache)
            /\ \E r \in Range(articles_cache) :
                    r["id"] = l["id"] /\ r \in Range(last_call.remote)
    /\ \E l \in Range(last_call.local) :
            l \in Range(articles_cache) /\ l \notin Range(last_call.remote)

----------------------------------------------------------------------------
(* Claims about the ingestion cycle *)

Active(a) == Get(a, "status", "None") # "Deleted"
UrlOf(a) == Get(a, "url", EmptyStr)
HasRecord(id) == first_index(articles_cache, id) # 0
RecordOf(id) == articles_cache[first_index(articles_cache, id)]
ActiveWithUrl(u) ==
    {k \in 1..Len(articles_cache) :
        Active(articles_cache[k]) /\ NormalizeUrl(UrlOf(articles_cache[k])) = NormalizeUrl(u)}

\* the candidates of the running cycle that went through the loop body
Candidates == {k \in 1..Len(processed) : ~processed[k].skipped}
TimedOut(p) == p.elapsed1 > Budget \/ (p.invoked /\ p.elapsed2 > Budget)
ScrapeFailed(p) == startswith(p.txt, "Error")
AnalysisFailed(p) == p.invoked /\ startswith(p.res, "Error")
ParseFailed(p) == p.invoked /\ ~startswith(p.res, "Error") /\ ~json_parses(p.res)
Analyzed(p) == p.invoked /\ p.elapsed2 <= Budget /\ json_parses(p.res)
BadLinkPayload(p) ==
    /\ Analyzed(p)
    /\ Get(json_loads(p.res), "tl_dr", Null) = Str(BAD_LINK)

\* C1: after two cycles with the same connector output, none of whose candidates
\* ran out of time, each link of the output that is not skipped has exactly one
\* active record with its normalized URL.
C1_IdempotentReingestion ==
    (pc = "idle" /\ sweeps = 2 /\ \A k \in 1..Len(articles_cache) : Active(articles_cache[k]))
        => \A output \in inbox : \A k \in 1..Len(output.links) :
                ~contains(output.links[k], "favicon")
                    => Cardinality(ActiveWithUrl(output.links[k])) = 1

\* C2: a step never creates an active record whose normalized URL is that of a
\* URL purge_article was called on.
C2_BlacklistPermanence ==
    [][\A k \in 1..Len(articles_cache') :
          LET a == articles_cache'[k]
          IN  (NoRecordWithId(articles_cache, a["id"]) /\ Active(a))
                  => NormalizeUrl(UrlOf(a)) \notin {NormalizeUrl(u) : u \in purged}]_vars

\* C22: the records of the store have pairwise distinct ids.
C22_IdsDistinct ==
    \A j, k \in 1..Len(articles_cache) :
        j # k => articles_cache[j]["id"] # articles_cache[k]["id"]

\* C3: no two active records have the same normalized URL.
C3_ActiveUrlsUnique ==
    \A j, k \in 1..Len(articles_cache) :
        (j # k /\ Active(articles_cache[j]) /\ Active(articles_cache[k]))
            => NormalizeUrl(UrlOf(articles_cache[j])) # NormalizeUrl(UrlOf(articles_cache[k]))

\* C4: a candidate whose elapsed time exceeded the budget after the scrape or
\* after the analysis has no record in the store.
C4_TimedOutRemoved ==
    \A k \in Candidates :
        TimedOut(processed[k]) => NoRecordWithId(get_all_articles, processed[k].id)

\* C5: a candidate whose analysis payload has the bad-link marker as its TL;DR has
\* no record in the store and its URL is in deleted_urls.
C5_BadLinkPurged ==
    \A k \in Candidates :
        BadLinkPayload(processed[k])
            => /\ NoRecordWithId(get_all_articles, processed[k].id)
               /\ processed[k].url \in deleted_urls

\* the fields of a record that the specification types as lists
EightListFields ==
    {"full_summary_bullets", "people_mentioned", "organizations_involved", "allegations",
     "current_situation", "next_steps", "prevention_strategies", "discovery_questions"}

\* C14: the record of a candidate that was analyzed has a list in each of the
\* eight list-typed fields for which the payload had a string, a null or a
\* JSON-encoded string.
C14_StoredListFieldsAreLists ==
    \A k \in Candidates :
        Analyzed(processed[k]) =>
            \A f \in EightListFields :
                Has(json_loads(processed[k].res), f)
                    => /\ HasRecord(processed[k].id)
                       /\ Has(RecordOf(processed[k].id), f)
                       /\ IsList(RecordOf(processed[k].id)[f])

\* what the loop body leaves of a candidate that stayed within the budget, by its
\* own scrape and analysis results
OwnOutcome(p, a) ==
    IF ScrapeFailed(p) THEN a["status"] = "Error" /\ a["last_error"] = p.txt
    ELSE IF ~p.invoked THEN a["status"] = "In Process" /\ a["last_error"] = <<"No API Key">>
    ELSE IF AnalysisFailed(p) THEN a["status"] = "Not Started" /\ a["last_error"] = p.res
    ELSE IF ParseFailed(p) THEN a["last_error"] = <<"JSON Parse Error">>
    ELSE /\ a["status"] = "Not Started"
         /\ a["last_error"] = EmptyStr
         /\ a["article_title"] = json_loads(p.res)["article_title"]
         /\ IsList(a["tl_dr"])

\* the cycle goes on after each candidate: the loop is at the candidate after the
\* last one that went through, and they went through in the order of new_links
CycleContinues ==
    pc # "idle" =>
        /\ Len(processed) = i - 1
        /\ \A k \in 1..Len(processed) : processed[k].url = new_links[k]

\* C8 as claimed: a candidate whose scrape failed has a record in status Error
\* with the failure detail as last_error.
C8_ScrapeFailureIsError ==
    \A k \in Candidates :
        ScrapeFailed(processed[k])
            => /\ HasRecord(processed[k].id)
               /\ RecordOf(processed[k].id)["status"] = "Error"
               /\ RecordOf(processed[k].id)["last_error"] = processed[k].txt

\* three candidates, the 2nd failed scraping, the 1st and the 3rd were analyzed
ThreeWithSecondFailed ==
    /\ Len(processed) = 3
    /\ Candidates = {1, 2, 3}
    /\ \A k \in 1..3 : ~TimedOut(processed[k])
    /\ ScrapeFailed(processed[2])
    /\ Analyzed(processed[1])
    /\ Analyzed(processed[3])

\* C8 as amended: a candidate whose scrape failed within the budget has a record
\* in status Error with the failure detail as last_error; every candidate within
\* the budget has the record of its own outcome whatever happened to the others,
\* and the cycle goes on; of three candidates whose 2nd fails scraping, three
\* records are added, the 2nd in Error and the 1st and 3rd analyzed.
C8_PartialFailureIsolation ==
    /\ CycleContinues
    /\ \A k \in Candidates :
            ~TimedOut(processed[k])
                => /\ HasRecord(processed[k].id)
                   /\ UrlOf(RecordOf(processed[k].id)) = processed[k].url
                   /\ OwnOutcome(processed[k], RecordOf(processed[k].id))
    /\ ThreeWithSecondFailed
            => /\ Cardinality({processed[k].id : k \in 1..3}) = 3
               /\ RecordOf(processed[2].id)["status"] = "Error"
               /\ \A k \in {1, 3} :
                      /\ RecordOf(processed[k].id)["status"] = "Not Started"
                      /\ RecordOf(processed[k].id)["last_error"] = EmptyStr

\* a cycle of three candidates from a fresh store, the 2nd in Error
C8_Witness ==
    /\ ThreeWithSecondFailed
    /\ Len(articles_cache) = 3
    /\ RecordOf(processed[2].id)["last_error"] = ScrapeError

\* C9 as claimed: a candidate whose analysis failed has a record in status
\* Not Started with a non-empty last_error, and the cycle goes on.
C9_AnalysisFailureRetryable ==
    /\ CycleContinues
    /\ \A k \in Candidates :
            AnalysisFailed(processed[k])
                => /\ HasRecord(processed[k].id)
                   /\ RecordOf(processed[k].id)["status"] = "Not Started"
                   /\ RecordOf(processed[k].id)["last_error"] # EmptyStr

\* C9 as amended: the same, of a candidate whose analysis failed and returned
\* within the budget.
C9_AnalysisFailureInBudget ==
    /\ CycleContinues
    /\ \A k \in Candidates :
            (AnalysisFailed(processed[k]) /\ processed[k].elapsed2 <= Budget)
                => /\ HasRecord(processed[k].id)
                   /\ RecordOf(processed[k].id)["status"] = "Not Started"
                   /\ RecordOf(processed[k].id)["last_error"] = processed[k].res
                   /\ RecordOf(processed[k].id)["last_error"] # EmptyStr

\* an analysis failure within the budget, and the candidate after it processed
C9_Witness ==
    \E k \in Candidates :
        /\ AnalysisFailed(processed[k])
        /\ processed[k].elapsed2 <= Budget
        /\ k < Len(processed)
        /\ k + 1 \in Candidates
        /\ HasRecord(processed[k + 1].id)
        /\ RecordOf(processed[k + 1].id)["status"] # "In Process"

\* C10: a candidate whose payload failed JSON parsing within the budget has the
\* parse-failure marker as last_error and the status Not Started.
C10_ParseFailureRetryable ==
    \A k \in Candidates :
        (ParseFailed(processed[k]) /\ processed[k].elapsed2 <= Budget)
            => /\ HasRecord(processed[k].id)
               /\ RecordOf(processed[k].id)["last_error"] = <<"JSON Parse Error">>
               /\ RecordOf(processed[k].id)["status"] = "Not Started"

----------------------------------------------------------------------------
(* Claims about purge_article and delete_article *)

\* the last call was purge_article on a record of the store
AfterPurge ==
    /\ last_call.op = "purge_article"
    /\ last_call.found

\* C11: after purge_article on an existing record, no record has its id and the
\* normalized url of the record is a member of deleted_urls.
C11_PurgeBlacklistsNormalized ==
    AfterPurge =>
        /\ NoRecordWithId(get_all_articles, last_call.id)
        /\ NormalizeUrl(last_call.url) \in deleted_urls

\* the last call was delete_article on a record of the store
AfterDelete ==
    /\ last_call.op = "delete_article"
    /\ first_index(last_call.before, last_call.id) # 0

\* C12: after a soft delete the record is out of get_active_articles and in
\* get_all_articles with status Deleted and its other fields as before; after a
\* hard delete it is in neither; every other record is as it was, in its place.
C12_SoftVersusHardDelete ==
    AfterDelete =>
        LET before == last_call.before
            k == first_index(before, last_call.id)
        IN  IF last_call.hard
            THEN /\ NoRecordWithId(get_all_articles, last_call.id)
                 /\ NoRecordWithId(get_active_articles, last_call.id)
                 /\ get_all_articles = SelectSeq(before, LAMBDA a : a["id"] # last_call.id)
            ELSE /\ NoRecordWithId(get_active_articles, last_call.id)
                 /\ Len(get_all_articles) = Len(before)
                 /\ get_all_articles[k]["id"] = last_call.id
                 /\ get_all_articles[k]["status"] = "Deleted"
                 /\ \A f \in DOMAIN before[k] \ {"status"} :
                        get_all_articles[k][f] = before[k][f]
                 /\ \A j \in 1..Len(before) : j # k => get_all_articles[j] = before[j]
                 /\ \A a \in Range(before) :
                        (a["id"] # last_call.id /\ Active(a))
                            => a \in Range(get_active_articles)

\* a soft delete of an active record of a store that holds other records
C12_Witness ==
    /\ AfterDelete
    /\ ~last_call.hard
    /\ Len(last_call.before) >= 2
    /\ Active(last_call.before[first_index(last_call.before, last_call.id)])
    /\ Len(get_active_articles) >= 1
    /\ Len(get_active_articles) < Len(get_all_articles)

----------------------------------------------------------------------------
(* utils.py: normalize_analysis called on a caller's dict *)

Absent == <<"absent">>
SummaryText == Str(<<"S">>)
ValueShapes ==
    {Absent, Null, Num,
     Str(<<"plain">>), Str(<<" ", "plain", " ">>), Str(EmptyStr), Str(<<" ">>),
     Str(EncodedList), Str(<<" ">> \o EncodedList), Str(EncodedDict), Str(EncodedStr),
     Str(EncodedNum),
     List(<<Str(<<"x">>)>>), Dict([k |-> Str(<<"v">>)])}
OtherFieldShapes == {Absent, Null, Str(EncodedList), Dict([k |-> Str(<<"v">>)])}

with_field(d, key, v) == IF v = Absent THEN d ELSE dict_update(d, key :> v)

\* the payloads: tl_dr in every shape, with and without summary, and another
\* list field in some shapes
NormalizeInputs ==
    {with_field(with_field(with_field(<<>>, "tl_dr", t), "summary", sm_), "people_mentioned", o) :
        t \in ValueShapes, sm_ \in {Absent, SummaryText}, o \in OtherFieldShapes}

InitNormalize ==
    /\ InitFresh
    /\ inbox = {}
    /\ InitUrlIdle
    /\ InitSheetIdle
    /\ InitSession
    /\ InitQueueIdle
    /\ InitMailIdle
    /\ nz_arg \in NormalizeInputs
    /\ nz_in = <<>>
    /\ nz_out = <<>>

\* data = normalize_analysis(data): the loop writes data[key] into the dict it
\* was given and returns that dict
Normalize ==
    /\ Len(nz_out) < MaxNormalizeCalls
    /\ nz_in' = Append(nz_in, nz_arg)
    /\ nz_arg' = normalize_analysis(nz_arg)
    /\ nz_out' = Append(nz_out, nz_arg')
    /\ UNCHANGED <<storeVars, cycleVars, now_ts, calls, coolVars, mailVars, queueVars, urlVars, sheetVars>>

NextNormalize == Normalize

SpecNormalize == InitNormalize /\ [][NextNormalize]_vars

----------------------------------------------------------------------------
(* Claims about normalize_analysis *)

ListFieldSet == Range(list_fields)

\* C13: what normalize_analysis returns has a list in every field of the fixed
\* set, whatever the input held there.
C13_ListFieldsAreLists ==
    \A n \in 1..Len(nz_out) :
        \A f \in ListFieldSet : Has(nz_out[n], f) /\ IsList(nz_out[n][f])

\* a value and the list a string of it is turned into
AsGivenOrListed(v) ==
    {v} \cup (IF IsStr(v) THEN {List(<<v>>), List(<<Str(strip(v[2]))>>)} ELSE {})

\* C15: after normalize_analysis, tl_dr is the input's tl_dr when the input has
\* one, and the input's summary when it has no tl_dr and has a summary (a plain
\* string counts as equal to the one-element list of it).
C15_LegacyAlias ==
    Len(nz_out) >= 1 =>
        LET x == nz_in[1]
            y == nz_out[1]
        IN  /\ (Has(x, "tl_dr") /\ (IsList(x["tl_dr"]) \/ x["tl_dr"] = Str(<<"plain">>)))
                    => Has(y, "tl_dr") /\ y["tl_dr"] \in AsGivenOrListed(x["tl_dr"])
            /\ (~Has(x, "tl_dr") /\ Has(x, "summary"))
                    => Has(y, "tl_dr") /\ y["tl_dr"] \in AsGivenOrListed(x["summary"])

\* C16: normalize_analysis of what normalize_analysis returned returns the same.
C16_NormalizeIdempotent ==
    \A n \in 2..Len(nz_out) : nz_out[n] = nz_out[1]

\* a second call on a dict whose string, null and absent fields the first call
\* rewrote
C16_Witness ==
    /\ Len(nz_out) = 2
    /\ nz_in[1] # nz_out[1]
    /\ nz_in[2] = nz_out[1]
    /\ Has(nz_in[1], "tl_dr")
    /\ nz_in[1]["tl_dr"] = Str(<<" ">> \o EncodedList)
    /\ nz_out[2]["tl_dr"] = literal_value(EncodedList)
    /\ ~Has(nz_in[1], "people_mentioned")

\* C17: the dict passed to normalize_analysis holds after the call what it held
\* before it.
C17_NormalizePure ==
    Len(nz_out) >= 1 => nz_arg = nz_in[Len(nz_in)]

----------------------------------------------------------------------------
(* data_manager.py: the url normalization of set_backend, lines 55 and 59 *)

UrlTokens == {WS, SLASH, "https://x.com/a"}

RECURSIVE SeqsUpTo(_, _)
SeqsUpTo(S, n) ==
    IF n = 0 THEN {<<>>}
    ELSE LET shorter == SeqsUpTo(S, n - 1)
         IN  shorter \cup {Append(q, x) : q \in shorter, x \in S}

\* the urls: every string of at most MaxUrlLen tokens, and None
UrlInputs == SeqsUpTo(UrlTokens, MaxUrlLen) \cup {NoneStr}

InitNormalizeUrl ==
    /\ InitFresh
    /\ inbox = {}
    /\ InitNormIdle
    /\ InitSheetIdle
    /\ InitSession
    /\ InitQueueIdle
    /\ InitMailIdle
    /\ nu_in \in UrlInputs
    /\ nu_out = <<>>
    /\ nu_state = "input"

\* a.get("url", "").strip().rstrip('/'): None has no strip
NormalizeUrlCall ==
    /\ nu_state = "input"
    /\ IF nu_in = NoneStr
       THEN nu_state' = "raised" /\ UNCHANGED nu_out
       ELSE nu_state' = "done" /\ nu_out' = NormalizeUrl(nu_in)
    /\ UNCHANGED <<storeVars, cycleVars, now_ts, calls, coolVars, mailVars, queueVars, normVars, sheetVars, nu_in>>

NextNormalizeUrl == NormalizeUrlCall

SpecNormalizeUrl == InitNormalizeUrl /\ [][NextNormalizeUrl]_vars

\* the characters of s but its last one
ButLast(s) == SubSeq(s, 1, Len(s) - 1)

\* C18: the normalization gives the url without its leading and trailing
\* whitespace and without one trailing slash: a url that ends in two slashes
\* keeps one; the empty url and None give the empty string without an error.
C18_NormalizeStripsOneSlash ==
    nu_state # "input" =>
        /\ nu_state = "done"
        /\ LET t == IF nu_in = NoneStr THEN EmptyStr ELSE strip(nu_in)
           IN  nu_out = IF t # EmptyStr /\ t[Len(t)] = SLASH THEN ButLast(t) ELSE t

----------------------------------------------------------------------------
(* sheet_manager.py: SheetManager.get_new_urls *)

\* the tokens that stand for characters beginning with "http"
HttpTokens == {"https://x.com/a", "https://y.com/b", "https://x.com/"}

\* url.startswith("http")
starts_http(url) == url # <<>> /\ Head(url) \in HttpTokens

\* row[n].strip() if len(row) > n else "", for the 1-based column n
cell(row, n) == IF Len(row) >= n THEN strip(row[n]) ELSE EmptyStr

\* the rows the loop does not skip: a url in column A and no status in column B
open_rows(rows) ==
    {k \in 1..Len(rows) : starts_http(cell(rows[k], 1)) /\ cell(rows[k], 2) = EmptyStr}
valid_rows(rows) == {k \in 1..Len(rows) : starts_http(cell(rows[k], 1))}

\* the rows appended to updates, and those appended to new_items
duplicate_rows(rows, existing) ==
    {k \in open_rows(rows) : cell(rows[k], 1) \in existing}
new_rows(rows, existing) ==
    {k \in open_rows(rows) : cell(rows[k], 1) \notin existing}

\* new_items numbered from 0
new_items_zero_based(rows, existing) ==
    LET idx == SelectSeq([k \in 1..Len(rows) |-> k], LAMBDA k : k \in new_rows(rows, existing))
    IN  [n \in 1..Len(idx) |-> [url |-> cell(rows[idx[n]], 1), row |-> idx[n] - 1]]

\* new_items, in the order of the rows
new_items(rows, existing) ==
    LET idx == SelectSeq([k \in 1..Len(rows) |-> k], LAMBDA k : k \in new_rows(rows, existing))
    IN  [n \in 1..Len(idx) |-> [url |-> cell(rows[idx[n]], 1), row |-> idx[n]]]

DuplicateMark == <<"Duplicate">>

\* sheet.batch_update(updates): column B of each row of updates
batch_update(rows, updates) ==
    [k \in 1..Len(rows) |->
        IF k \notin updates THEN rows[k]
        ELSE IF Len(rows[k]) >= 2 THEN [rows[k] EXCEPT ![2] = DuplicateMark]
        ELSE <<rows[k][1], DuplicateMark>>]

NoStats == [total_rows |-> 0, valid_urls |-> 0, duplicates |-> 0, new |-> 0]
NoError == NoneStr

\* opening and reading the sheet: it works, the spreadsheet is not found, or
\* another exception is raised
OpenOutcomes == {"ok", "not_found", "raise"}
WriteOutcomes == {"ok", "raise"}

\* get_new_urls(sheet_identifier, existing_urls): what it returns and writes
get_new_urls(existing, opened, written) ==
    LET entry(items, error, stats, updates) ==
            [before |-> sheet, items |-> items, error |-> error, stats |-> stats,
             updates |-> updates, written |-> written]
    IN  IF ~sh_client
        THEN /\ sh_hist' = Append(sh_hist, entry(<<>>, <<"Not authenticated">>, NoStats, {}))
             /\ UNCHANGED sheet
        ELSE IF opened = "not_found"
        THEN /\ sh_hist' = Append(sh_hist, entry(<<>>, <<"Spreadsheet not found">>, NoStats, {}))
             /\ UNCHANGED sheet
        ELSE IF opened = "raise"
        THEN /\ sh_hist' = Append(sh_hist, entry(<<>>, <<"Error accessing sheet">>, NoStats, {}))
             /\ UNCHANGED sheet
        ELSE LET items == new_items(sheet, existing)
                 updates == duplicate_rows(sheet, existing)
                 stats == [total_rows |-> Len(sheet),
                           valid_urls |-> Cardinality(valid_rows(sheet)),
                           duplicates |-> Cardinality(updates),
                           new |-> Len(items)]
             IN  /\ sh_hist' = Append(sh_hist, entry(items, NoError, stats, updates))
                 /\ sheet' = IF updates # {} /\ written = "ok"
                             THEN batch_update(sheet, updates) ELSE sheet

HeaderRow == << <<"URL">>, <<"Status">> >>
RowShapes ==
    {<<>>, HeaderRow, <<UrlA>>, <<UrlA, EmptyStr>>, <<UrlATrailingSpace, <<" ">>>>,
     <<UrlA, <<"Done">>>>, <<UrlB, EmptyStr>>, <<UrlB, DuplicateMark>>}
SheetInputs == SeqsUpTo(RowShapes, MaxRows)
ExistingInputs == {{}, {UrlA}, {UrlA, UrlB}}

InitSheet ==
    /\ InitFresh
    /\ inbox = {}
    /\ InitNormIdle
    /\ InitUrlIdle
    /\ InitSession
    /\ InitQueueIdle
    /\ InitMailIdle
    /\ sheet \in SheetInputs
    /\ sh_existing \in ExistingInputs
    /\ sh_client \in BOOLEAN
    /\ sh_hist = <<>>

GetNewUrls ==
    /\ Len(sh_hist) < MaxReads
    /\ \E opened \in (IF sh_client THEN OpenOutcomes ELSE {"ok"}) :
         \E written \in (IF sh_client /\ opened = "ok"
                               /\ duplicate_rows(sheet, sh_existing) # {}
                          THEN WriteOutcomes ELSE {"ok"}) :
            get_new_urls(sh_existing, opened, written)
    /\ UNCHANGED <<storeVars, cycleVars, now_ts, calls, coolVars, mailVars, queueVars, normVars, urlVars,
                   sh_existing, sh_client>>

NextSheet == GetNewUrls

SpecSheet == InitSheet /\ [][NextSheet]_vars

----------------------------------------------------------------------------
(* Claims about get_new_urls *)

\* the calls that read the sheet and returned no error
Reads == {n \in 1..Len(sh_hist) : sh_hist[n].error = NoError}

\* the sheet as call n left it
SheetAfter(n) == IF n < Len(sh_hist) THEN sh_hist[n + 1].before ELSE sheet

ReturnedRows(n) == {sh_hist[n].items[j].row : j \in 1..Len(sh_hist[n].items)}

\* row k of rows: column A is a url, column B is blank, the url is unknown
IsNewWork(rows, k, existing) ==
    /\ starts_http(strip(rows[k][1]))
    /\ (Len(rows[k]) < 2 \/ strip(rows[k][2]) = EmptyStr)
    /\ strip(rows[k][1]) \notin existing

\* C19: a call that read the sheet returns a row if and only if its column A is
\* a url, its column B is blank and the url is not in existing_urls; each item
\* carries the 1-based number of its row and the url of that row; a row with a
\* status is not returned and is left as it was.
C19_ReaderResult ==
    \A n \in Reads :
        LET rows == sh_hist[n].before
            items == sh_hist[n].items
        IN  /\ \A k \in 1..Len(rows) :
                    (k \in ReturnedRows(n))
                        <=> (Len(rows[k]) >= 1 /\ IsNewWork(rows, k, sh_existing))
            /\ \A j \in 1..Len(items) :
                    /\ items[j].row \in 1..Len(rows)
                    /\ items[j].url = strip(rows[items[j].row][1])
                    /\ \A j2 \in 1..Len(items) : j2 # j => items[j2].row # items[j].row
            /\ Len(SheetAfter(n)) = Len(rows)
            /\ \A k \in 1..Len(rows) :
                    (Len(rows[k]) >= 2 /\ strip(rows[k][2]) # EmptyStr)
                        => k \notin ReturnedRows(n) /\ SheetAfter(n)[k] = rows[k]

\* a sheet with a header, read with a row of new work below it
C19_Witness ==
    \E n \in Reads :
        /\ sh_hist[n].before = <<HeaderRow, <<UrlB, EmptyStr>>>>
        /\ sh_existing = {UrlA}
        /\ sh_hist[n].items = <<[url |-> UrlB, row |-> 2]>>

\* C20: a call that read the sheet leaves out each row with blank status whose
\* url is in existing_urls and has "Duplicate" in its column B afterwards; the
\* next call does not return the row, does not count it and does not write to it.
C20_DuplicateWriteBack ==
    \A n \in Reads :
        \A k \in 1..Len(sh_hist[n].before) :
            LET rows == sh_hist[n].before
            IN  (/\ Len(rows[k]) >= 1
                 /\ starts_http(strip(rows[k][1]))
                 /\ (Len(rows[k]) < 2 \/ strip(rows[k][2]) = EmptyStr)
                 /\ strip(rows[k][1]) \in sh_existing)
                    => /\ k \notin ReturnedRows(n)
                       /\ Len(SheetAfter(n)[k]) >= 2
                       /\ SheetAfter(n)[k][2] = DuplicateMark
                       /\ (n + 1 \in Reads)
                            => /\ k \notin ReturnedRows(n + 1)
                               /\ k \notin sh_hist[n + 1].updates
                               /\ sh_hist[n + 1].stats.duplicates
                                    = Cardinality(sh_hist[n + 1].updates)

----------------------------------------------------------------------------
(* get_new_urls on sheets of three rows *)

\* the rows [(a, ""), (a, ""), (b, "Done")], with UrlA for a and UrlB for b
ScenarioSheet == << <<UrlA, EmptyStr>>, <<UrlA, EmptyStr>>, <<UrlB, <<"Done">>>> >>

\* every sheet of as many rows, of the rows of the scenario and a row of new work
ScenarioRowShapes == Range(ScenarioSheet) \cup {<<UrlB, EmptyStr>>}
ScenarioSheets ==
    {q \in SeqsUpTo(ScenarioRowShapes, Len(ScenarioSheet)) : Len(q) = Len(ScenarioSheet)}

InitSheetScenario ==
    /\ InitFresh
    /\ inbox = {}
    /\ InitNormIdle
    /\ InitUrlIdle
    /\ InitSession
    /\ InitQueueIdle
    /\ InitMailIdle
    /\ sheet \in ScenarioSheets
    /\ sh_existing \in SUBSET {UrlA, UrlB}
    /\ sh_client \in BOOLEAN
    /\ sh_hist = <<>>

SpecSheetScenario == InitSheetScenario /\ [][NextSheet]_vars

\* C21: get_new_urls on the rows [(a, ""), (a, ""), (b, "Done")] with
\* existing_urls = {a} returns no items, has "Duplicate" in column B of row 2
\* afterwards, and reports total_rows 3, valid_urls 2, duplicates 1, new 0.
C21_SheetScenario ==
    \A n \in Reads :
        (/\ sh_hist[n].before = ScenarioSheet
         /\ sh_existing = {UrlA}
         /\ sh_hist[n].written = "ok")
            => /\ sh_hist[n].items = <<>>
               /\ SheetAfter(n)[2][2] = DuplicateMark
               /\ sh_hist[n].stats =
                    [total_rows |-> 3, valid_urls |-> 2, duplicates |-> 1, new |-> 0]

----------------------------------------------------------------------------
(* Claims about the fields of a record that are set once *)

\* C23: no step of an ingestion cycle, re-analysis, edit or soft delete changes
\* the id or the added_at of a record that is in the store: the record stays in
\* its place with the id and added_at it had.
C23_IdAndAddedAtImmutable ==
    [][\A k \in 1..Len(articles_cache) :
          /\ k <= Len(articles_cache')
          /\ articles_cache'[k]["id"] = articles_cache[k]["id"]
          /\ articles_cache'[k]["added_at"] = articles_cache[k]["added_at"]]_vars

\* a record of the ingestion cycle that was analyzed, edited and soft-deleted
C23_Witness ==
    \E k \in 1..Len(articles_cache) :
        LET a == articles_cache[k]
        IN  /\ a["source"] = "email"
            /\ a["id"] >= FirstUuid
            /\ Has(a, "allegations")
            /\ Has(a, "priority")
            /\ a["status"] = "Deleted"

----------------------------------------------------------------------------
(* Claims about the calls that add and change records *)

\* the fields _prepare_article fills in
Metadata == {"id", "added_at", "status", "notes", "last_error"}

\* what record a stored for the caller's record arg: the caller's fields as
\* given, and the metadata the caller left out, the id drawn as uuid
Prepared(a, arg, uuid) ==
    /\ DOMAIN a = DOMAIN arg \cup Metadata
    /\ \A f \in DOMAIN arg : a[f] = arg[f]
    /\ ~Has(arg, "id") => a["id"] = uuid
    /\ ~Has(arg, "added_at") => a["added_at"] = now_ts
    /\ ~Has(arg, "status") => a["status"] = "Not Started"
    /\ ~Has(arg, "notes") => a["notes"] = EmptyStr
    /\ ~Has(arg, "last_error") => a["last_error"] = EmptyStr

\* the records that were stored before are the first records after, unchanged
KeepsStored == SubSeq(articles_cache', 1, Len(articles_cache)) = articles_cache

\* a step of save_article / save_articles / update_article
SaveArticleStep == calls' = calls + 1 /\ last_call'.op = "save_article"
SaveArticlesStep == calls' = calls + 1 /\ last_call'.op = "save_articles"
UpdateArticleStep == calls' = calls + 1 /\ last_call'.op = "update_article"

\* C24: save_article and save_articles fill in id, added_at, status, notes and
\* last_error only where the caller's record lacks them, keep every field of
\* the caller, append the record(s) at the end of the store in the caller's
\* order, and leave the records stored before unchanged.
C24_SaveFillsAbsentAndAppends ==
    [][/\ SaveArticleStep =>
            /\ Len(articles_cache') = Len(articles_cache) + 1
            /\ KeepsStored
            /\ Prepared(articles_cache'[Len(articles_cache')], last_call'.arg, next_uuid)
       /\ SaveArticlesStep =>
            LET n == Len(articles_cache)
                first == last_call'.arg[1]
                second == last_call'.arg[2]
            IN  /\ Len(articles_cache') = n + 2
                /\ KeepsStored
                /\ Prepared(articles_cache'[n + 1], first, next_uuid)
                /\ Prepared(articles_cache'[n + 2], second,
                            IF Has(first, "id") THEN next_uuid ELSE next_uuid + 1)]_vars

\* a record saved with its own id, added_at and notes after other records
C24_Witness ==
    /\ last_call.op = "save_article"
    /\ Has(last_call.arg, "id")
    /\ Len(articles_cache) >= 3
    /\ articles_cache[Len(articles_cache)]["notes"] = <<"mine">>
    /\ \E k \in 1..Len(articles_cache) : articles_cache[k]["id"] >= FirstUuid

\* C25: update_article on an id that no record has leaves every record as it
\* was and raises nothing; on an id of the store it merges the fields into the
\* first record with the id and leaves every other record as it was.
C25_UpdateFirstMatchOnly ==
    [][UpdateArticleStep =>
          LET k == first_index(articles_cache, last_call'.id)
              arg == last_call'.arg
          IN  /\ raised' = FALSE
              /\ Len(articles_cache') = Len(articles_cache)
              /\ \A j \in 1..Len(articles_cache) :
                     j # k => articles_cache'[j] = articles_cache[j]
              /\ k # 0 =>
                     /\ DOMAIN articles_cache'[k] = DOMAIN articles_cache[k] \cup DOMAIN arg
                     /\ \A f \in DOMAIN arg : articles_cache'[k][f] = arg[f]
                     /\ \A f \in DOMAIN articles_cache[k] \ DOMAIN arg :
                            articles_cache'[k][f] = articles_cache[k][f]]_vars

\* an update of an id that two records of the store have
C25_Witness ==
    /\ last_call.op = "update_article"
    /\ \E j, k \in 1..Len(articles_cache) :
           /\ j < k
           /\ articles_cache[j]["id"] = last_call.id
           /\ articles_cache[k]["id"] = last_call.id
           /\ articles_cache[j]["status"] = "Completed"
           /\ articles_cache[k]["status"] # "Completed"

\* an update of id 0, which no record of a store of two has
C25_WitnessUnknownId ==
    /\ last_call.op = "update_article"
    /\ last_call.id = 0
    /\ Len(articles_cache) >= 2


\* a step of clear_all_articles
ClearAllStep == calls' = calls + 1 /\ last_call'.op = "clear_all_articles"

\* C26: clear_all_articles leaves no record in the cache and in the local file,
\* and none in the mirror that took the write, and leaves the preferences
\* (the blacklist and the font size) as they were.
C26_ClearAllKeepsPreferences ==
    [][ClearAllStep =>
          /\ articles_cache' = <<>>
          /\ data_file' = <<>>
          /\ (sm = "attached" /\ last_call'.out = "ok") => remote_db' = <<>>
          /\ prefs' = prefs]_vars

\* a reset of a store that held a record, with a url on the blacklist
C26_Witness ==
    /\ last_call.op = "clear_all_articles"
    /\ last_call.before # <<>>
    /\ deleted_urls # {}
    /\ articles_cache = <<>>


----------------------------------------------------------------------------
(* Claims about the exclusion set of an ingestion cycle *)

\* the exclusion as specified: the link's normalized URL is that of an active
\* record or of an entry of deleted_urls
ExcludedAsSpecified(l) ==
    \/ ActiveWithUrl(l) # {}
    \/ NormalizeUrl(l) \in {NormalizeUrl(u) : u \in deleted_urls}

\* the step of lines 329-341 that enters the loop with its candidates
EntersLoop == pc = "idle" /\ pc' = "save"

\* C27: the candidates of a cycle are the links of the connector's output that
\* are not excluded, a link being excluded iff its normalized URL is that of an
\* active record or of an entry of deleted_urls; the URL of a soft-deleted
\* record is not excluded.
C27_ExclusionFromActiveOnly ==
    [][EntersLoop =>
          new_links' = SelectSeq(links', LAMBDA l : ~ExcludedAsSpecified(l))]_vars

\* C28: when the loop of a cycle is over, the URL of a candidate whose scrape
\* failed or which ran out of time is not in the exclusion set that the next
\* cycle computes, so the next cycle takes the link again.
C28_RetryViaRediscovery ==
    (pc = "save" /\ i > Len(new_links)) =>
        \A k \in Candidates :
            (ScrapeFailed(processed[k]) \/ TimedOut(processed[k]))
                => /\ processed[k].url \notin existing_urls \cup deleted_urls
                   /\ new_links_of(<<processed[k].url>>) = <<processed[k].url>>


----------------------------------------------------------------------------
(* Claims about the placeholder of a candidate *)

\* the record with this id is in the cache and in the local file
Stored(id) ==
    /\ HasRecord(id)
    /\ first_index(data_file, id) # 0

\* C29: when scrape_article is about to be called for a candidate, the last
\* record of the store has the candidate's url and status In Process and is in
\* the local file as well; and the record of every candidate that went through
\* the loop body is still in the store and in the local file.
C29_PlaceholderBeforeScrape ==
    /\ pc = "scrape" =>
          LET n == Len(articles_cache)
          IN  /\ n > 0
              /\ articles_cache[n]["id"] = saved_art
              /\ UrlOf(articles_cache[n]) = new_links[i]
              /\ articles_cache[n]["status"] = "In Process"
              /\ Len(data_file) = n
              /\ data_file[n] = articles_cache[n]
    /\ \A k \in Candidates : Stored(processed[k].id)

\* the scrape of a second candidate is about to start after the first one ran
\* out of time
C29_Witness ==
    /\ pc = "scrape"
    /\ i = 2
    /\ \E k \in Candidates : TimedOut(processed[k])


----------------------------------------------------------------------------
(* Claims about the cooldown of the email sweep *)

\* a step of maybe_auto_check_email
SweepCallStep == calls' = calls + 1 /\ pc = "idle"

\* C30: a call that is not forced starts a connector fetch only when at least
\* 60 seconds have passed since the start of the previous fetch, forced or
\* not; a forced call with credentials starts one whatever the timestamp; a
\* call without credentials starts none and leaves the timestamp as it was.
C30_Cooldown ==
    [][SweepCallStep =>
          LET n == Len(fetched)
              started == Len(fetched') = n + 1
          IN  /\ started \/ fetched' = fetched
              /\ started => fetched'[n + 1] = [at |-> now_ts, force |-> cd_call'.force]
              /\ (started /\ ~cd_call'.force /\ n > 0) =>
                     now_ts - fetched[n].at >= Cooldown
              /\ (cd_call'.force /\ cd_call'.credentials) => started
              /\ ~cd_call'.credentials =>
                     /\ ~started
                     /\ last_email_check_ts' = last_email_check_ts]_vars

\* a fetch that was not forced, 60 seconds after a forced one
C30_Witness ==
    /\ Len(fetched) = 2
    /\ fetched[1].force
    /\ ~fetched[2].force
    /\ fetched[2].at - fetched[1].at = Cooldown

\* a call that was not forced and fetched nothing, inside the cooldown
C30_WitnessHeldBack ==
    /\ fetched # <<>>
    /\ cd_call.credentials /\ ~cd_call.force /\ ~cd_call.fetch
    /\ now_ts - fetched[Len(fetched)].at = Cooldown - 1

\* a forced fetch inside the cooldown of the one before
C30_WitnessForced ==
    /\ Len(fetched) = 2
    /\ fetched[2].force
    /\ fetched[2].at - fetched[1].at < Cooldown


----------------------------------------------------------------------------
(* email_manager.py: fetch_new_links *)

\* how the IMAP server answers: the login raises, INBOX cannot be selected, or
\* the messages can be searched
ImapOutcomes == {"ok", "login_raises", "no_inbox"}

\* what one message does to the loop body of lines 60-90: its payload decodes
\* and holds these links, its payload does not decode (lines 75-76 and 87-88
\* swallow that), or a call outside those handlers raises (mail.fetch,
\* message_from_bytes, BeautifulSoup)
MessageKinds == {"decodes", "undecodable", "raises"}
MessageLinks == SUBSET {UrlA, UrlB}
Messages == [kind : MessageKinds, links : MessageLinks]

\* the links of the messages whose content lines 89-90 see
links_of(msgs) ==
    UNION {IF msgs[k].kind = "decodes" THEN msgs[k].links ELSE {} : k \in 1..Len(msgs)}

\* fetch_new_links, lines 37-96: one try block around the whole function; an
\* exception anywhere in it, the loop over the messages included, gives
\* "Error: ...", and the links gathered so far go with it
fetch_result(msgs, server) ==
    IF server = "login_raises" THEN [error |-> TRUE, links |-> <<>>]
    ELSE IF server = "no_inbox" THEN [error |-> FALSE, links |-> <<>>]
    ELSE IF \E k \in 1..Len(msgs) : msgs[k].kind = "raises"
    THEN [error |-> TRUE, links |-> <<>>]
    ELSE [error |-> FALSE, links |-> as_list(links_of(msgs))]

\* a mailbox of up to MaxMessages messages, before the connector is called
InitFetch ==
    /\ InitFresh
    /\ inbox = {}
    /\ InitNormIdle
    /\ InitUrlIdle
    /\ InitSheetIdle
    /\ InitSession
    /\ InitQueueIdle
    /\ \E n \in 0..MaxMessages : mailbox \in [1..n -> Messages]
    /\ imap \in ImapOutcomes
    /\ fetch_out = <<>>

\* EmailManager.fetch_new_links(blocked_domains)
FetchNewLinks ==
    /\ fetch_out = <<>>
    /\ fetch_out' = <<fetch_result(mailbox, imap)>>
    /\ UNCHANGED <<storeVars, cycleVars, now_ts, calls, coolVars, normVars, urlVars,
                   sheetVars, queueVars, mailbox, imap>>

NextFetch == FetchNewLinks

SpecFetch == InitFetch /\ [][NextFetch]_vars

----------------------------------------------------------------------------
(* Claims about the email connector *)

\* the messages whose processing did not raise
NotRaising(msgs) == SelectSeq(msgs, LAMBDA m : m.kind # "raises")

\* C31: over a connection that works, fetch_new_links returns the links of
\* every message whose processing did not raise, also when the processing of
\* another message raised; it returns an error value only when the connection
\* itself fails.
C31_PartialSuccess ==
    fetch_out # <<>> =>
        /\ imap = "ok" =>
              /\ ~fetch_out[1].error
              /\ fetch_out[1].links = as_list(links_of(NotRaising(mailbox)))
        /\ fetch_out[1].error => imap = "login_raises"


----------------------------------------------------------------------------
(* Claims about the blacklist and the active records *)

\* C32: no step takes a url out of deleted_urls.
C32_BlacklistOnlyGrows ==
    [][deleted_urls \subseteq Get(prefs', "deleted_urls", {})]_vars


\* C33: no active record has a url that is in deleted_urls.
C33_NoActiveBlacklisted ==
    \A k \in 1..Len(articles_cache) :
        Active(articles_cache[k]) => UrlOf(articles_cache[k]) \notin deleted_urls


\* C34: when the loop of an ingestion cycle is over, no record that the cycle
\* created has status In Process.
C34_InProcessTransient ==
    (pc = "save" /\ i > Len(new_links)) =>
        \A k \in Candidates :
            HasRecord(processed[k].id)
                => RecordOf(processed[k].id)["status"] # "In Process"


----------------------------------------------------------------------------
(* Claims about the mirror after set_backend *)

\* the records the mirror held before any write of this process: the mirror is
\* written only once a backend is attached
FromRemote == {Remote1, Remote3}

\* the step deletes or purges the record with this id, or clears the store
ExplicitlyRemoved(id) ==
    \/ last_call'.op \in {"delete_article", "purge_article"} /\ last_call'.id = id
    \/ last_call'.op = "clear_all_articles"

\* C35: with a backend attached, a record that the mirror held at attach time
\* stays in the mirror through set_backend and through every later store call,
\* unless the call deletes or purges it or its url was purged.
C35_NoRemoteRecordLost ==
    [][sm' = "attached" =>
          \A r \in Range(remote_db) \cap FromRemote :
              \/ r["id"] \in IdsOf(Range(remote_db'))
              \/ ExplicitlyRemoved(r["id"])
              \/ Blacklisted(r, deleted_urls)]_vars


----------------------------------------------------------------------------
(* Claims about the items of one get_new_urls call *)

\* C36: the items that one call of get_new_urls returns have distinct urls.
C36_NewItemsDistinctUrls ==
    \A n \in Reads :
        LET items == sh_hist[n].items
        IN  \A j1, j2 \in 1..Len(items) :
                items[j1].url = items[j2].url => j1 = j2

----------------------------------------------------------------------------
(* Claims about batch re-analysis *)

\* C37: while a batch runs, the ids taken from the queue followed by the ids
\* still in it are the selection the batch was started with, so each rerun takes
\* the next id of the selection and takes it once; the flag is reset only when
\* every id of the selection has been taken; and every batch that was started
\* comes to that reset, whatever the steps found.
C37_QueueDrainsInOrder ==
    /\ [](is_reanalyzing => rq_log \o reanalyze_queue = rq_sel)
    /\ [][(is_reanalyzing /\ ~is_reanalyzing')
              => (reanalyze_queue = <<>> /\ rq_log = rq_sel)]_vars
    /\ [][rq_log' # rq_log /\ is_reanalyzing'
              => (rq_log # rq_sel /\ rq_log' = SubSeq(rq_sel, 1, Len(rq_log) + 1))]_vars
    /\ (is_reanalyzing ~> ~is_reanalyzing)

\* a batch of an id that no record has and an id whose scrape failed, at its last
\* rerun
C37_Witness ==
    /\ is_reanalyzing
    /\ reanalyze_queue = <<>>
    /\ rq_sel = <<0, Local1["id"]>>
    /\ rq_log = rq_sel
    /\ articles_cache[1]["status"] = "Deleted"

\* the same batch when it is over
C37_WitnessOver ==
    /\ ~is_reanalyzing
    /\ calls = Len(<<0, Local1["id"]>>) + 1
    /\ articles_cache[1]["status"] = "Deleted"

\* the fields the user maintains, and the two that are set once
UserFields == {"status", "notes", "priority", "url", "id", "added_at"}

\* records a and b agree on field f: both lack it or both have it with one value
SameField(a, b, f) == Has(a, f) = Has(b, f) /\ (Has(a, f) => a[f] = b[f])

\* C38: a step of batch re-analysis leaves the status, notes, priority, url, id
\* and added_at of every record as they were, and every active record active.
C38_BatchKeepsUserFields ==
    [][rq_log' # rq_log
          => \A k \in 1..Len(articles_cache) :
                 /\ k <= Len(articles_cache')
                 /\ \A f \in UserFields :
                        SameField(articles_cache[k], articles_cache'[k], f)
                 /\ Active(articles_cache[k]) => Active(articles_cache'[k])]_vars

----------------------------------------------------------------------------
(* Claims about the outcome of a scrape *)

\* C39: a candidate whose page was fetched within the time budget is passed to
\* the analyzer when there is a key, and its record is not given status Error
\* with the text of the page as its last_error.
C39_FetchedTextIsAnalyzed ==
    \A k \in Candidates :
        (processed[k].resp /\ processed[k].elapsed1 <= Budget /\ api_key)
            => /\ processed[k].invoked
               /\ ~(/\ HasRecord(processed[k].id)
                    /\ RecordOf(processed[k].id)["status"] = "Error"
                    /\ Get(RecordOf(processed[k].id), "last_error", EmptyStr)
                           = processed[k].txt)

====
